---- MODULE Spec2Model ----
(***************************************************************************)
(* Golf season and statistics tracker: the record store (useGolfData), the *)
(* statistics aggregation of the Statistics page (filteredRounds,          *)
(* playerStats, courseStats, seasonStats) and its export formatter         *)
(* (sanitizeCSVValue, handleExportCSV, handleExportXLSX).                  *)
(*                                                                         *)
(* Identifiers (crypto.randomUUID) are fresh integers drawn from counters, *)
(* never reused.  A JavaScript object used as a dictionary                 *)
(* (Record<string, ...>) is a sequence of entries in insertion order,      *)
(* which is the order Object.values / Object.entries enumerate UUID keys.  *)
(* A string is a sequence of one-character strings.  Timestamps            *)
(* (new Date().toISOString()) are readings of a logical clock that ticks   *)
(* when a round is created; 0 stands for an absent (undefined) timestamp.  *)
(***************************************************************************)
EXTENDS Integers, Sequences, FiniteSets, TLC

\* Bounds of the model.
MaxPlayers == 2
MaxSeasons == 2
MaxCourses == 1
MaxRounds == 2
MaxHole == 2
MaxNameLen == 2

VARIABLES
    players,     \* useGolfData: Player[]  (roster, in insertion order)
    seasons,     \* useGolfData: Season[]
    courses,     \* useGolfData: Course[]
    rounds,      \* useGolfData: Round[]
    ids,         \* next fresh identifier of each collection (randomUUID)
    clock,       \* logical time read by new Date()
    view,        \* the mounted Statistics page: its filter and memoised stats
    exported,    \* the payload of the last export of the rendered page
    isLoading,   \* useGolfData: isLoading
    storage,     \* localStorage: the item under each of STORAGE_KEYS
    pending      \* the persist effects of the last render that have not run

vars == <<players, seasons, courses, rounds, ids, clock, view, exported,
          isLoading, storage, pending>>
store == <<players, seasons, courses, rounds>>

Undefined == 0
NotFound == [found |-> FALSE]
NoView == [mounted |-> FALSE]
NoExport == [kind |-> "none"]

----------------------------------------------------------------------------
(* Generic helpers over sequences.                                         *)

Range(s) == {s[i] : i \in DOMAIN s}

\* Array.prototype.find / findIndex, given the indices that pass the test:
\* the first of them, 0 when there is none (JavaScript: undefined / -1).
FindIndex(hits) ==
    IF hits = {} THEN 0 ELSE CHOOSE i \in hits : \A j \in hits : i <= j

----------------------------------------------------------------------------
(* Strings.                                                                *)

Tab == "\t"
Newline == "\n"
DQuote == "\""
SQuote == "'"
Comma == ","

Whitespace == {" ", Tab, Newline}

\* String.prototype.trim
RECURSIVE TrimStart(_)
TrimStart(s) ==
    IF s # <<>> /\ Head(s) \in Whitespace THEN TrimStart(Tail(s)) ELSE s

RECURSIVE TrimEnd(_)
TrimEnd(s) ==
    IF s # <<>> /\ s[Len(s)] \in Whitespace
    THEN TrimEnd(SubSeq(s, 1, Len(s) - 1)) ELSE s

Trim(s) == TrimEnd(TrimStart(s))

----------------------------------------------------------------------------
(* The record store: useGolfData.                                          *)

SeasonIds == {seasons[i].id : i \in DOMAIN seasons}
CourseIds == {courses[i].id : i \in DOMAIN courses}
RoundIds == {rounds[i].id : i \in DOMAIN rounds}
RosterIds == {players[i].id : i \in DOMAIN players}

\* STORAGE_KEYS
Keys == {"players", "seasons", "courses", "rounds"}

\* The collections held in memory, by key.
Memory ==
    [players |-> players, seasons |-> seasons, courses |-> courses,
     rounds |-> rounds]

\* localStorage.getItem of a key never written: null
Null == [kind |-> "null"]

\* An item that JSON.parse rejects
Corrupt == [kind |-> "corrupt"]

\* JSON.stringify(value): an item JSON.parse turns back into the value
Stringify(value) == [kind |-> "json", value |-> value]

\* A variant that writes whatever isLoading is.
PersistEffectUnguarded(item, value, loading) == Stringify(value)

\* One persist effect, run with the value and the isLoading of its render:
\* if (!isLoading) localStorage.setItem(key, JSON.stringify(value)).
\* The item under the key afterwards.
PersistEffect(item, value, loading) ==
    IF ~loading THEN Stringify(value) ELSE item

\* The persist effects of the keys ks, run with the values of one render
PersistEffects(items, ks, memory, loading) ==
    [k \in Keys |->
        IF k \in ks THEN PersistEffect(items[k], memory[k], loading)
        ELSE items[k]]

\* What follows a state update of a handler: the render, and the persist
\* effects of the collections that changed.  (An update that stores an equal
\* collection runs its effect too, and writes what is stored already.)
Persisted ==
    /\ isLoading' = isLoading
    /\ pending' = pending
    /\ storage' =
          [players |-> IF players' # players
                       THEN PersistEffect(storage.players, players', isLoading)
                       ELSE storage.players,
           seasons |-> IF seasons' # seasons
                       THEN PersistEffect(storage.seasons, seasons', isLoading)
                       ELSE storage.seasons,
           courses |-> IF courses' # courses
                       THEN PersistEffect(storage.courses, courses', isLoading)
                       ELSE storage.courses,
           rounds |-> IF rounds' # rounds
                      THEN PersistEffect(storage.rounds, rounds', isLoading)
                      ELSE storage.rounds]

\* The store has been loaded and every collection written back.
Loaded ==
    /\ isLoading = FALSE
    /\ pending = {}
    /\ storage = [k \in Keys |-> Stringify(Memory[k])]

\* addPlayer(name)
AddPlayer(name) ==
    /\ ids.player <= MaxPlayers
    /\ players' = Append(players, [id |-> ids.player, name |-> Trim(name)])
    /\ ids' = [ids EXCEPT !.player = @ + 1]
    /\ UNCHANGED <<seasons, courses, rounds, clock>>
    /\ Persisted

\* A variant that also takes the player out of every season's members.
RemovePlayerAndMembership(playerId) ==
    /\ players' = SelectSeq(players, LAMBDA p : p.id # playerId)
    /\ seasons' = [i \in DOMAIN seasons |->
                     [seasons[i] EXCEPT
                        !.playerIds = SelectSeq(@, LAMBDA x : x # playerId)]]
    /\ UNCHANGED <<courses, rounds, ids, clock>>
    /\ Persisted

\* removePlayer(playerId)
RemovePlayer(playerId) ==
    /\ players' = SelectSeq(players, LAMBDA p : p.id # playerId)
    /\ UNCHANGED <<seasons, courses, rounds, ids, clock>>
    /\ Persisted

\* updatePlayer(playerId, {name})
UpdatePlayer(playerId, name) ==
    /\ players' = [i \in DOMAIN players |->
                     IF players[i].id = playerId
                     THEN [players[i] EXCEPT !.name = name]
                     ELSE players[i]]
    /\ UNCHANGED <<seasons, courses, rounds, ids, clock>>
    /\ Persisted

\* createSeason(name, playerIds)
CreateSeason(name, playerIds) ==
    /\ ids.season <= MaxSeasons
    /\ seasons' = Append(seasons, [id |-> ids.season,
                                   name |-> Trim(name),
                                   playerIds |-> playerIds,
                                   status |-> "active",
                                   completedAt |-> Undefined])
    /\ ids' = [ids EXCEPT !.season = @ + 1]
    /\ UNCHANGED <<players, courses, rounds, clock>>
    /\ Persisted

\* getActiveSeason(): the first active season, or NotFound
GetActiveSeason ==
    LET i == FindIndex({ix \in DOMAIN seasons : seasons[ix].status = "active"})
    IN IF i = 0 THEN NotFound ELSE seasons[i]

\* completeSeason(seasonId)
CompleteSeason(seasonId) ==
    /\ seasons' = [i \in DOMAIN seasons |->
                     IF seasons[i].id = seasonId
                     THEN [seasons[i] EXCEPT !.status = "completed",
                                             !.completedAt = clock]
                     ELSE seasons[i]]
    /\ UNCHANGED <<players, courses, rounds, ids, clock>>
    /\ Persisted

\* A variant that deletes the season and keeps its rounds.
DeleteSeasonOnly(seasonId) ==
    /\ seasons' = SelectSeq(seasons, LAMBDA s : s.id # seasonId)
    /\ UNCHANGED <<players, courses, rounds, ids, clock>>
    /\ Persisted

\* deleteSeason(seasonId): the season and its rounds
DeleteSeason(seasonId) ==
    /\ seasons' = SelectSeq(seasons, LAMBDA s : s.id # seasonId)
    /\ rounds' = SelectSeq(rounds, LAMBDA r : r.seasonId # seasonId)
    /\ UNCHANGED <<players, courses, ids, clock>>
    /\ Persisted

\* addCourse(name, numberOfCourses, holesPerCourse, location)
AddCourse(name) ==
    /\ ids.course <= MaxCourses
    /\ courses' = Append(courses, [id |-> ids.course, name |-> Trim(name)])
    /\ ids' = [ids EXCEPT !.course = @ + 1]
    /\ UNCHANGED <<players, seasons, rounds, clock>>
    /\ Persisted

\* createRound(seasonId, courseId, playerIds)
CreateRound(seasonId, courseId, playerIds) ==
    /\ ids.round <= MaxRounds
    /\ rounds' = Append(rounds, [id |-> ids.round,
                                 seasonId |-> seasonId,
                                 courseId |-> courseId,
                                 playerIds |-> playerIds,
                                 holeResults |-> <<>>,
                                 startedAt |-> clock,
                                 completedAt |-> Undefined])
    /\ ids' = [ids EXCEPT !.round = @ + 1]
    /\ clock' = clock + 1
    /\ UNCHANGED <<players, seasons, courses>>
    /\ Persisted

\* A variant that appends the result, whether the hole is recorded or not.
UpdatedRoundAppended(r, holeNumber, winnerIds, holeInOnePlayerIds) ==
    [r EXCEPT !.holeResults =
        Append(@, [holeNumber |-> holeNumber,
                   winnerIds |-> winnerIds,
                   holeInOnePlayerIds |-> holeInOnePlayerIds])]

\* The round updateRoundHole maps a round of the given id to.
UpdatedRound(r, holeNumber, winnerIds, holeInOnePlayerIds) ==
    LET existingIndex ==
            FindIndex({ix \in DOMAIN r.holeResults : r.holeResults[ix].holeNumber = holeNumber})
        newResult == [holeNumber |-> holeNumber,
                      winnerIds |-> winnerIds,
                      holeInOnePlayerIds |-> holeInOnePlayerIds]
        newHoleResults ==
            IF existingIndex > 0
            THEN [i \in DOMAIN r.holeResults |->
                    IF i = existingIndex THEN newResult ELSE r.holeResults[i]]
            ELSE Append(r.holeResults, newResult)
    IN [r EXCEPT !.holeResults = newHoleResults]

\* updateRoundHole(roundId, holeNumber, winnerIds, holeInOnePlayerIds)
UpdateRoundHole(roundId, holeNumber, winnerIds, holeInOnePlayerIds) ==
    /\ rounds' = [i \in DOMAIN rounds |->
                    IF rounds[i].id # roundId THEN rounds[i]
                    ELSE UpdatedRound(rounds[i], holeNumber, winnerIds,
                                      holeInOnePlayerIds)]
    /\ UNCHANGED <<players, seasons, courses, ids, clock>>
    /\ Persisted

\* A variant that reopens a round that is already completed.
CompleteRoundToggled(roundId) ==
    /\ rounds' = [i \in DOMAIN rounds |->
                    IF rounds[i].id = roundId
                    THEN [rounds[i] EXCEPT
                            !.completedAt =
                                IF @ = Undefined THEN clock ELSE Undefined]
                    ELSE rounds[i]]
    /\ UNCHANGED <<players, seasons, courses, ids, clock>>
    /\ Persisted

\* completeRound(roundId)
CompleteRound(roundId) ==
    /\ rounds' = [i \in DOMAIN rounds |->
                    IF rounds[i].id = roundId
                    THEN [rounds[i] EXCEPT !.completedAt = clock]
                    ELSE rounds[i]]
    /\ UNCHANGED <<players, seasons, courses, ids, clock>>
    /\ Persisted

----------------------------------------------------------------------------
(* Dictionaries (Record<string, number>) in insertion order.               *)

DictHas(d, k) == \E i \in DOMAIN d : d[i].key = k

\* d[k] || 0
DictGet(d, k) ==
    IF DictHas(d, k) THEN d[CHOOSE i \in DOMAIN d : d[i].key = k].value ELSE 0

\* d[k] = (d[k] || 0) + 1
DictInc(d, k) ==
    IF DictHas(d, k)
    THEN [i \in DOMAIN d |->
            IF d[i].key = k THEN [d[i] EXCEPT !.value = @ + 1] ELSE d[i]]
    ELSE Append(d, [key |-> k, value |-> 1])

\* Math.max(...Object.values(d), 0)
MaxValue(d) ==
    LET vals == {d[i].value : i \in DOMAIN d} \cup {0}
    IN CHOOSE m \in vals : \A v \in vals : v <= m

\* A variant that puts an element before the elements it ties with.
RECURSIVE InsertDescBeforeTies(_, _, _)
InsertDescBeforeTies(sorted, x, f) ==
    IF sorted = <<>> THEN <<x>>
    ELSE IF Head(sorted)[f] > x[f]
         THEN <<Head(sorted)>> \o InsertDescBeforeTies(Tail(sorted), x, f)
         ELSE <<x>> \o sorted

\* Array.prototype.sort((a, b) => b[f] - a[f]): stable, descending by field f.
RECURSIVE InsertDesc(_, _, _)
InsertDesc(sorted, x, f) ==
    IF sorted = <<>> THEN <<x>>
    ELSE IF Head(sorted)[f] >= x[f]
         THEN <<Head(sorted)>> \o InsertDesc(Tail(sorted), x, f)
         ELSE <<x>> \o sorted

RECURSIVE SortDescFrom(_, _, _)
SortDescFrom(sorted, rest, f) ==
    IF rest = <<>> THEN sorted
    ELSE SortDescFrom(InsertDesc(sorted, Head(rest), f), Tail(rest), f)

SortDesc(s, f) == SortDescFrom(<<>>, s, f)

----------------------------------------------------------------------------
(* Statistics page: filteredRounds and playerStats.                        *)

\* The filter's sentinel 'all': no season has this identifier.
AllSeasons == 0

\* A variant that ignores the filter.
FilteredRoundsUnfiltered(selectedSeasonId) == rounds

\* filteredRounds
FilteredRounds(selectedSeasonId) ==
    IF selectedSeasonId = AllSeasons THEN rounds
    ELSE SelectSeq(rounds, LAMBDA r : r.seasonId = selectedSeasonId)

Unknown == <<"U", "n", "k", "n", "o", "w", "n">>

\* A variant whose accumulator outlives the render: the counts of the last
\* render are kept instead of being reset.
InitialStatsKept ==
    IF view.mounted /\ Len(view.trace[Len(view.trace)]) = Len(players)
    THEN view.trace[Len(view.trace)]
    ELSE [i \in DOMAIN players |->
            [playerId |-> players[i].id, name |-> players[i].name,
             totalWins |-> 0, holesWon |-> 0, holeInOnes |-> 0,
             roundsPlayed |-> 0, courseHistory |-> <<>>]]

\* players.forEach(player => stats[player.id] = {...zeros})
InitialStats ==
    [i \in DOMAIN players |->
        [playerId |-> players[i].id,
         name |-> players[i].name,
         totalWins |-> 0,
         holesWon |-> 0,
         holeInOnes |-> 0,
         roundsPlayed |-> 0,
         courseHistory |-> <<>>]]

\* stats[id] is defined
HasStats(stats, id) == \E i \in DOMAIN stats : stats[i].playerId = id

\* stats[id][f]++
IncStat(stats, id, f) ==
    [i \in DOMAIN stats |->
        IF stats[i].playerId = id
        THEN [stats[i] EXCEPT ![f] = @ + 1] ELSE stats[i]]

\* A variant that counts the round for every player of the roster.
CountRoundsPlayedByAll(stats, playerIds) ==
    [i \in DOMAIN stats |-> [stats[i] EXCEPT !.roundsPlayed = @ + 1]]

\* round.playerIds.forEach: roundsPlayed++ for the ids that have stats
RECURSIVE CountRoundsPlayed(_, _)
CountRoundsPlayed(stats, playerIds) ==
    IF playerIds = <<>> THEN stats
    ELSE CountRoundsPlayed(
            IF HasStats(stats, Head(playerIds))
            THEN IncStat(stats, Head(playerIds), "roundsPlayed")
            ELSE stats,
            Tail(playerIds))

\* One step of hole.winnerIds.forEach on the accumulator
\* acc = [stats, roundScores, roundHoleInOnes].
CountWinner(acc, winnerId) ==
    IF HasStats(acc.stats, winnerId)
    THEN [acc EXCEPT !.stats = IncStat(@, winnerId, "holesWon"),
                     !.roundScores = DictInc(@, winnerId)]
    ELSE acc

\* A variant that credits a hole to its first winner only.
CountWinnersFirstOnly(acc, winnerIds) ==
    IF winnerIds = <<>> THEN acc ELSE CountWinner(acc, Head(winnerIds))

RECURSIVE CountWinners(_, _)
CountWinners(acc, winnerIds) ==
    IF winnerIds = <<>> THEN acc
    ELSE CountWinners(CountWinner(acc, Head(winnerIds)), Tail(winnerIds))

\* One step of hole.holeInOnePlayerIds.forEach
CountHoleInOne(acc, playerId) ==
    IF HasStats(acc.stats, playerId)
    THEN [acc EXCEPT !.stats = IncStat(@, playerId, "holeInOnes"),
                     !.roundHoleInOnes = DictInc(@, playerId)]
    ELSE acc

RECURSIVE CountHoleInOnes(_, _)
CountHoleInOnes(acc, playerIds) ==
    IF playerIds = <<>> THEN acc
    ELSE CountHoleInOnes(CountHoleInOne(acc, Head(playerIds)), Tail(playerIds))

\* round.holeResults.forEach
RECURSIVE CountHoles(_, _)
CountHoles(acc, holeResults) ==
    IF holeResults = <<>> THEN acc
    ELSE CountHoles(
            CountHoleInOnes(CountWinners(acc, Head(holeResults).winnerIds),
                            Head(holeResults).holeInOnePlayerIds),
            Tail(holeResults))

\* A variant that names the first course, whichever course the round is at.
CourseNameOfFirst(courseId) ==
    IF courses = <<>> THEN Unknown ELSE courses[1].name

\* courses.find(c => c.id === round.courseId)?.name || 'Unknown'
CourseName(courseId) ==
    LET i == FindIndex({ix \in DOMAIN courses : courses[ix].id = courseId})
    IN IF i = 0 \/ courses[i].name = <<>> THEN Unknown ELSE courses[i].name

\* "Add to course history": one entry per participant of a completed round
RECURSIVE PushHistory(_, _, _, _)
PushHistory(stats, round, acc, playerIds) ==
    IF playerIds = <<>> THEN stats
    ELSE LET playerId == Head(playerIds)
             entry == [courseId |-> round.courseId,
                       courseName |-> CourseName(round.courseId),
                       score |-> DictGet(acc.roundScores, playerId),
                       date |-> round.startedAt,
                       holeInOnes |-> DictGet(acc.roundHoleInOnes, playerId)]
             pushed ==
                 IF HasStats(stats, playerId) /\ round.completedAt # Undefined
                 THEN [i \in DOMAIN stats |->
                         IF stats[i].playerId = playerId
                         THEN [stats[i] EXCEPT
                                 !.courseHistory = Append(@, entry)]
                         ELSE stats[i]]
                 ELSE stats
         IN PushHistory(pushed, round, acc, Tail(playerIds))

\* A variant that awards the round to the first entry at the maximum only.
AwardFirstOnly(stats, entries, maxScore) ==
    LET i == FindIndex({ix \in DOMAIN entries : entries[ix].value = maxScore})
    IN IF i > 0 /\ HasStats(stats, entries[i].key)
       THEN IncStat(stats, entries[i].key, "totalWins") ELSE stats

\* Object.entries(roundScores).forEach: totalWins++ at the maximum
RECURSIVE AwardWins(_, _, _)
AwardWins(stats, entries, maxScore) ==
    IF entries = <<>> THEN stats
    ELSE AwardWins(
            IF Head(entries).value = maxScore /\ HasStats(stats, Head(entries).key)
            THEN IncStat(stats, Head(entries).key, "totalWins")
            ELSE stats,
            Tail(entries), maxScore)

\* A variant that also awards a round still in progress.
RoundWinnersAnyState(stats, round, roundScores) ==
    LET maxScore == MaxValue(roundScores)
    IN IF maxScore > 0 THEN AwardWins(stats, roundScores, maxScore)
       ELSE stats

\* A variant that asks for a maximum above one.
RoundWinnersAboveOne(stats, round, roundScores) ==
    IF round.completedAt # Undefined
    THEN LET maxScore == MaxValue(roundScores)
         IN IF maxScore > 1 THEN AwardWins(stats, roundScores, maxScore)
            ELSE stats
    ELSE stats

\* "Determine round winner": only for a completed round with a maximum > 0
RoundWinners(stats, round, roundScores) ==
    IF round.completedAt # Undefined
    THEN LET maxScore == MaxValue(roundScores)
         IN IF maxScore > 0 THEN AwardWins(stats, roundScores, maxScore)
            ELSE stats
    ELSE stats

\* The body of filteredRounds.forEach(round => ...): the stats after one round
RoundStep(stats, round) ==
    LET played == CountRoundsPlayed(stats, round.playerIds)
        acc == CountHoles([stats |-> played,
                           roundScores |-> <<>>,
                           roundHoleInOnes |-> <<>>],
                          round.holeResults)
        withHistory == PushHistory(acc.stats, round, acc, round.playerIds)
    IN RoundWinners(withHistory, round, acc.roundScores)

\* filteredRounds.forEach, keeping the stats after each round: trace[1] is
\* the initial stats and trace[k + 1] the stats after the k-th round.
RECURSIVE AccumulateRounds(_, _)
AccumulateRounds(trace, rs) ==
    IF rs = <<>> THEN trace
    ELSE AccumulateRounds(
            Append(trace, RoundStep(trace[Len(trace)], Head(rs))), Tail(rs))

\* The stats of the forEach, round by round
StatsTrace(selectedSeasonId) ==
    AccumulateRounds(<<InitialStats>>, FilteredRounds(selectedSeasonId))

\* playerStats: Object.values(stats).sort(by holesWon, highest first)
PlayerStats(trace) == SortDesc(trace[Len(trace)], "holesWon")

----------------------------------------------------------------------------
(* Statistics page: courseStats and seasonStats.                           *)

\* players.find(p => p.id === playerId)
FindPlayer(playerId) ==
    LET i == FindIndex({ix \in DOMAIN players : players[ix].id = playerId})
    IN IF i = 0 THEN NotFound ELSE players[i]

\* hole.winnerIds.forEach(winnerId => roundScores[winnerId] = ... + 1)
RECURSIVE TallyWinners(_, _)
TallyWinners(roundScores, winnerIds) ==
    IF winnerIds = <<>> THEN roundScores
    ELSE TallyWinners(DictInc(roundScores, Head(winnerIds)), Tail(winnerIds))

\* round.holeResults.forEach of courseStats: every winner id is tallied
RECURSIVE TallyHoles(_, _)
TallyHoles(roundScores, holeResults) ==
    IF holeResults = <<>> THEN roundScores
    ELSE TallyHoles(TallyWinners(roundScores, Head(holeResults).winnerIds),
                    Tail(holeResults))

\* A variant that also replaces an equal score, keeping the latest date.
RECURSIVE KeepBestLatest(_, _, _)
KeepBestLatest(best, entries, date) ==
    IF entries = <<>> THEN best
    ELSE LET e == Head(entries)
             i == FindIndex({ix \in DOMAIN best : best[ix].key = e.key})
             next ==
                 IF i = 0
                 THEN Append(best, [key |-> e.key, score |-> e.value,
                                    date |-> date])
                 ELSE IF e.value >= best[i].score
                 THEN [best EXCEPT ![i] = [key |-> e.key, score |-> e.value,
                                           date |-> date]]
                 ELSE best
         IN KeepBestLatest(next, Tail(entries), date)

\* Object.entries(roundScores).forEach: keep the strictly better score
RECURSIVE KeepBest(_, _, _)
KeepBest(best, entries, date) ==
    IF entries = <<>> THEN best
    ELSE LET e == Head(entries)
             i == FindIndex({ix \in DOMAIN best : best[ix].key = e.key})
             next ==
                 IF i = 0
                 THEN Append(best, [key |-> e.key, score |-> e.value,
                                    date |-> date])
                 ELSE IF e.value > best[i].score
                 THEN [best EXCEPT ![i] = [key |-> e.key, score |-> e.value,
                                           date |-> date]]
                 ELSE best
         IN KeepBest(next, Tail(entries), date)

\* courseRounds.forEach
RECURSIVE BestScores(_, _)
BestScores(best, courseRounds) ==
    IF courseRounds = <<>> THEN best
    ELSE BestScores(
            KeepBest(best, TallyHoles(<<>>, Head(courseRounds).holeResults),
                     Head(courseRounds).startedAt),
            Tail(courseRounds))

\* A variant that keeps the rounds still in progress.
CourseRoundsAnyState(course, selectedSeasonId) ==
    SelectSeq(FilteredRounds(selectedSeasonId), LAMBDA r : r.courseId = course.id)

\* courseRounds of one course: its completed rounds of the filtered set
CourseRounds(course, selectedSeasonId) ==
    SelectSeq(FilteredRounds(selectedSeasonId),
           LAMBDA r : r.courseId = course.id /\ r.completedAt # Undefined)

\* A variant that keeps the entries whose player is not found.
RankingsUnresolved(best) ==
    SortDesc([i \in DOMAIN best |-> [player |-> FindPlayer(best[i].key),
                                     score |-> best[i].score,
                                     date |-> best[i].date]],
             "score")

\* rankings: resolved players only, best score first
Rankings(best) ==
    SortDesc(
        SelectSeq([i \in DOMAIN best |-> [player |-> FindPlayer(best[i].key),
                                       score |-> best[i].score,
                                       date |-> best[i].date]],
               LAMBDA r : r.player # NotFound),
        "score")

\* courseStats
CourseStats(selectedSeasonId) ==
    SortDesc(
        [i \in DOMAIN courses |->
            LET courseRounds == CourseRounds(courses[i], selectedSeasonId)
            IN [course |-> courses[i],
                roundsPlayed |-> Len(courseRounds),
                rankings |-> Rankings(BestScores(<<>>, courseRounds))]],
        "roundsPlayed")

\* leaderboard[id].score++ / leaderboard[id].holeInOnes++
BoardInc(board, id, f) ==
    LET b == IF \E i \in DOMAIN board : board[i].key = id THEN board
             ELSE Append(board, [key |-> id, score |-> 0, holeInOnes |-> 0])
    IN [i \in DOMAIN b |->
            IF b[i].key = id THEN [b[i] EXCEPT ![f] = @ + 1] ELSE b[i]]

RECURSIVE BoardIncAll(_, _, _)
BoardIncAll(board, playerIds, f) ==
    IF playerIds = <<>> THEN board
    ELSE BoardIncAll(BoardInc(board, Head(playerIds), f), Tail(playerIds), f)

\* round.holeResults.forEach of seasonStats
RECURSIVE BoardHoles(_, _)
BoardHoles(board, holeResults) ==
    IF holeResults = <<>> THEN board
    ELSE BoardHoles(
            BoardIncAll(
                BoardIncAll(board, Head(holeResults).winnerIds, "score"),
                Head(holeResults).holeInOnePlayerIds, "holeInOnes"),
            Tail(holeResults))

\* A variant that leaves out the rounds still in progress.
RECURSIVE BoardRoundsCompleted(_, _)
BoardRoundsCompleted(board, seasonRounds) ==
    IF seasonRounds = <<>> THEN board
    ELSE BoardRoundsCompleted(
            IF Head(seasonRounds).completedAt # Undefined
            THEN BoardHoles(board, Head(seasonRounds).holeResults)
            ELSE board,
            Tail(seasonRounds))

\* seasonRounds.forEach
RECURSIVE BoardRounds(_, _)
BoardRounds(board, seasonRounds) ==
    IF seasonRounds = <<>> THEN board
    ELSE BoardRounds(BoardHoles(board, Head(seasonRounds).holeResults),
                     Tail(seasonRounds))

\* sortedLeaderboard
SortedLeaderboard(board) ==
    SortDesc(
        SelectSeq([i \in DOMAIN board |-> [player |-> FindPlayer(board[i].key),
                                        score |-> board[i].score,
                                        holeInOnes |-> board[i].holeInOnes]],
               LAMBDA e : e.player # NotFound),
        "score")

\* seasonStats: over all rounds, whatever the filter
SeasonStats ==
    [i \in DOMAIN seasons |->
        LET season == seasons[i]
            seasonRounds == SelectSeq(rounds, LAMBDA r : r.seasonId = season.id)
            completedRounds ==
                SelectSeq(seasonRounds, LAMBDA r : r.completedAt # Undefined)
            seasonPlayers ==
                SelectSeq(players, LAMBDA p : p.id \in Range(season.playerIds))
        IN [season |-> season,
            roundsPlayed |-> Len(completedRounds),
            playerCount |-> Len(seasonPlayers),
            leaderboard |-> SortedLeaderboard(BoardRounds(<<>>, seasonRounds))]]

\* One render of the Statistics page with the given filter selected: the
\* memoised values, and the round-by-round stats they were accumulated from.
Aggregate(selectedSeasonId) ==
    LET trace == StatsTrace(selectedSeasonId)
    IN [mounted |-> TRUE,
        selectedSeasonId |-> selectedSeasonId,
        trace |-> trace,
        playerStats |-> PlayerStats(trace),
        courseStats |-> CourseStats(selectedSeasonId),
        seasonStats |-> SeasonStats]

----------------------------------------------------------------------------
(* Statistics page: the export formatter.                                  *)

FormulaChars == {"=", "+", "-", "@", Tab}

Digits == <<"0", "1", "2", "3", "4", "5", "6", "7", "8", "9">>

\* String(value) of a non-negative integer
RECURSIVE StringOf(_)
StringOf(n) ==
    IF n < 10 THEN <<Digits[n + 1]>>
    ELSE StringOf(n \div 10) \o <<Digits[(n % 10) + 1]>>

\* str.replace(/"/g, '""')
RECURSIVE DoubleQuotes(_)
DoubleQuotes(str) ==
    IF str = <<>> THEN <<>>
    ELSE (IF Head(str) = DQuote THEN <<DQuote, DQuote>> ELSE <<Head(str)>>)
         \o DoubleQuotes(Tail(str))

\* str.includes(c)
Includes(str, c) == \E i \in DOMAIN str : str[i] = c

\* A variant whose prefix test misses the '@' character.
sanitizeWithoutAt(str) ==
    IF str # <<>> /\ Head(str) \in FormulaChars \ {"@"}
    THEN <<SQuote>> \o str
    ELSE IF Includes(str, Comma) \/ Includes(str, DQuote)
            \/ Includes(str, Newline)
    THEN <<DQuote>> \o DoubleQuotes(str) \o <<DQuote>>
    ELSE str

\* sanitizeCSVValue, on the string of the value
sanitizeCSVValue(str) ==
    IF str # <<>> /\ Head(str) \in FormulaChars
    THEN <<SQuote>> \o str
    ELSE IF Includes(str, Comma) \/ Includes(str, DQuote)
            \/ Includes(str, Newline)
    THEN <<DQuote>> \o DoubleQuotes(str) \o <<DQuote>>
    ELSE str

\* getExportData: the rows of the Player Statistics sheet
getExportData(playerStats) ==
    [index \in DOMAIN playerStats |->
        [Rank |-> index,
         Player |-> sanitizeCSVValue(playerStats[index].name),
         HolesWon |-> playerStats[index].holesWon,
         RoundsWon |-> playerStats[index].totalWins,
         HoleInOnes |-> playerStats[index].holeInOnes,
         RoundsPlayed |-> playerStats[index].roundsPlayed]]

CsvHeaders ==
    << <<"R", "a", "n", "k">>,
       <<"P", "l", "a", "y", "e", "r">>,
       <<"H", "o", "l", "e", "s", " ", "W", "o", "n">>,
       <<"R", "o", "u", "n", "d", "s", " ", "W", "o", "n">>,
       <<"H", "o", "l", "e", "-", "i", "n", "-", "O", "n", "e", "s">>,
       <<"R", "o", "u", "n", "d", "s", " ", "P", "l", "a", "y", "e", "d">> >>

\* handleExportCSV: rows, the strings of the cells before the final map
CsvRows(playerStats) ==
    [index \in DOMAIN playerStats |->
        <<StringOf(index),
          sanitizeCSVValue(playerStats[index].name),
          StringOf(playerStats[index].holesWon),
          StringOf(playerStats[index].totalWins),
          StringOf(playerStats[index].holeInOnes),
          StringOf(playerStats[index].roundsPlayed)>>]

\* A variant that joins the rows as they are, without the map over the cells.
CsvCellsAsBuilt(playerStats) == <<CsvHeaders>> \o CsvRows(playerStats)

\* row.map(cell => sanitizeCSVValue(cell)) over [headers, ...rows]
CsvCells(playerStats) ==
    LET table == <<CsvHeaders>> \o CsvRows(playerStats)
    IN [r \in DOMAIN table |->
          [c \in DOMAIN table[r] |-> sanitizeCSVValue(table[r][c])]]

\* Array.prototype.join(sep) of strings
RECURSIVE Join(_, _)
Join(strs, sep) ==
    IF strs = <<>> THEN <<>>
    ELSE IF Len(strs) = 1 THEN strs[1]
    ELSE strs[1] \o <<sep>> \o Join(Tail(strs), sep)

\* csvContent
CsvContent(playerStats) ==
    LET cells == CsvCells(playerStats)
    IN Join([r \in DOMAIN cells |-> Join(cells[r], Comma)], Newline)

\* format(new Date(date), 'yyyy-MM-dd'): the day of a logical timestamp
FormatDate(date) == StringOf(date)

\* Array.prototype.flatMap over a sequence of sequences
RECURSIVE Flatten(_)
Flatten(ss) == IF ss = <<>> THEN <<>> ELSE Head(ss) \o Flatten(Tail(ss))

\* r.player?.name || ''
NameOf(player) == IF player = NotFound THEN <<>> ELSE player.name

\* courseData: one row per ranked player per course
CourseData(courseStats) ==
    Flatten([k \in DOMAIN courseStats |->
        [i \in DOMAIN courseStats[k].rankings |->
            [Course |-> sanitizeCSVValue(courseStats[k].course.name),
             Rank |-> i,
             Player |-> sanitizeCSVValue(
                            NameOf(courseStats[k].rankings[i].player)),
             Score |-> courseStats[k].rankings[i].score,
             Date |-> FormatDate(courseStats[k].rankings[i].date)]]])

\* A variant that writes the names of the season sheet as stored.
SeasonDataAsStored(seasonStats) ==
    Flatten([k \in DOMAIN seasonStats |->
        [i \in DOMAIN seasonStats[k].leaderboard |->
            [Season |-> seasonStats[k].season.name,
             Rank |-> i,
             Player |-> NameOf(seasonStats[k].leaderboard[i].player),
             Score |-> seasonStats[k].leaderboard[i].score,
             HoleInOnes |-> seasonStats[k].leaderboard[i].holeInOnes]]])

\* seasonData: one row per leaderboard entry per season
SeasonData(seasonStats) ==
    Flatten([k \in DOMAIN seasonStats |->
        [i \in DOMAIN seasonStats[k].leaderboard |->
            [Season |-> sanitizeCSVValue(seasonStats[k].season.name),
             Rank |-> i,
             Player |-> sanitizeCSVValue(
                            NameOf(seasonStats[k].leaderboard[i].player)),
             Score |-> seasonStats[k].leaderboard[i].score,
             HoleInOnes |-> seasonStats[k].leaderboard[i].holeInOnes]]])

\* The workbook of handleExportXLSX: its sheets, in the order appended
Workbook(v) ==
    LET courseData == CourseData(v.courseStats)
        seasonData == SeasonData(v.seasonStats)
    IN <<[sheet |-> "Player Statistics",
          rows |-> getExportData(v.playerStats)]>>
       \o (IF Len(courseData) > 0
           THEN <<[sheet |-> "Course Rankings", rows |-> courseData]>>
           ELSE <<>>)
       \o (IF Len(seasonData) > 0
           THEN <<[sheet |-> "Season Standings", rows |-> seasonData]>>
           ELSE <<>>)

\* handleExportCSV (a menu item of the mounted page)
handleExportCSV ==
    /\ view.mounted
    /\ exported' = [kind |-> "csv",
                    cells |-> CsvCells(view.playerStats),
                    content |-> CsvContent(view.playerStats)]
    /\ UNCHANGED <<players, seasons, courses, rounds, ids, clock, view,
                   isLoading, storage, pending>>

\* handleExportXLSX (a menu item of the mounted page)
handleExportXLSX ==
    /\ view.mounted
    /\ exported' = [kind |-> "xlsx", sheets |-> Workbook(view)]
    /\ UNCHANGED <<players, seasons, courses, rounds, ids, clock, view,
                   isLoading, storage, pending>>

----------------------------------------------------------------------------
(* Pages.                                                                  *)

\* Every mutator is called from a page other than Statistics: the Statistics
\* page is not mounted then, and its memoised values are gone.
StatsUnmounted == view' = NoView /\ exported' = NoExport

\* The season filter's options: "all" and every season.
Filters == {AllSeasons} \cup SeasonIds

\* Statistics: a render with the filter f selected (the useMemo callbacks run).
Render(f) ==
    /\ f \in Filters
    /\ view' = Aggregate(f)
    /\ exported' = NoExport
    /\ UNCHANGED <<players, seasons, courses, rounds, ids, clock,
                   isLoading, storage, pending>>

\* A variant that is content with one selected player.
HandleCreateSeasonWithOne(seasonName, selectedPlayerIds) ==
    /\ Trim(seasonName) # <<>>
    /\ Len(selectedPlayerIds) >= 1
    /\ CreateSeason(Trim(seasonName), selectedPlayerIds)

\* A variant that returns the first roster player at the maximum.
GetRoundWinnerOfRoster(round) ==
    LET scores == TallyHoles(<<>>, round.holeResults)
        maxScore == MaxValue(scores)
        i == FindIndex({ix \in DOMAIN scores :
                          /\ scores[ix].value = maxScore
                          /\ FindPlayer(scores[ix].key) # NotFound})
    IN IF maxScore = 0 \/ i = 0 THEN NotFound ELSE FindPlayer(scores[i].key)

\* ContinueSeason.getRoundWinner: the player of the first id at the maximum,
\* NotFound for null / undefined
GetRoundWinner(round) ==
    LET scores == TallyHoles(<<>>, round.holeResults)
        maxScore == MaxValue(scores)
        i == FindIndex({ix \in DOMAIN scores : scores[ix].value = maxScore})
    IN IF maxScore = 0 \/ i = 0 THEN NotFound ELSE FindPlayer(scores[i].key)

\* NewSeason.handleCreateSeason, the early returns: a toast, nothing stored
HandleCreateSeasonRejected(seasonName, selectedPlayerIds) ==
    /\ Trim(seasonName) = <<>> \/ Len(selectedPlayerIds) < 2
    /\ UNCHANGED <<players, seasons, courses, rounds, ids, clock,
                   isLoading, storage, pending>>

\* NewSeason.handleCreateSeason
HandleCreateSeason(seasonName, selectedPlayerIds) ==
    /\ Trim(seasonName) # <<>>
    /\ Len(selectedPlayerIds) >= 2
    /\ CreateSeason(Trim(seasonName), selectedPlayerIds)

\* ManagePlayers.handleAddPlayer
HandleAddPlayer(newPlayerName) ==
    /\ Trim(newPlayerName) # <<>>
    /\ AddPlayer(Trim(newPlayerName))

----------------------------------------------------------------------------
(* The record store driven from its empty state.                           *)

PlainName == <<"a">>

OtherName == <<"b">>

Init ==
    /\ players = <<>>
    /\ seasons = <<>>
    /\ courses = <<>>
    /\ rounds = <<>>
    /\ ids = [player |-> 1, season |-> 1, course |-> 1, round |-> 1]
    /\ clock = 1
    /\ view = NoView
    /\ exported = NoExport
    /\ Loaded

DoAddPlayer == HandleAddPlayer(PlainName) /\ StatsUnmounted

DoRemovePlayer == \E p \in RosterIds : RemovePlayer(p) /\ StatsUnmounted

\* updatePlayer: a player is given another name
DoUpdatePlayer ==
    \E p \in RosterIds : UpdatePlayer(p, OtherName) /\ StatsUnmounted

DoCreateSeason ==
    HandleCreateSeason(PlainName, [i \in DOMAIN players |-> players[i].id])
    /\ StatsUnmounted

DoCompleteSeason == \E s \in SeasonIds : CompleteSeason(s) /\ StatsUnmounted

DoDeleteSeason == \E s \in SeasonIds : DeleteSeason(s) /\ StatsUnmounted

DoAddCourse == AddCourse(PlainName) /\ StatsUnmounted

\* PlayRound.handleStartRound: a round of the active season on a course
DoCreateRound ==
    /\ GetActiveSeason # NotFound
    /\ \E c \in CourseIds :
          CreateRound(GetActiveSeason.id, c, GetActiveSeason.playerIds)
    /\ StatsUnmounted

DoUpdateRoundHole ==
    \E i \in DOMAIN rounds, h \in 1..MaxHole :
        \E w \in {<<>>, <<Head(rounds[i].playerIds)>>} :
            UpdateRoundHole(rounds[i].id, h, w, <<>>) /\ StatsUnmounted

DoCompleteRound == \E r \in RoundIds : CompleteRound(r) /\ StatsUnmounted

DoRender == \E f \in Filters : Render(f)

Next ==
    \/ DoAddPlayer
    \/ DoRemovePlayer
    \/ DoUpdatePlayer
    \/ DoCreateSeason
    \/ DoCompleteSeason
    \/ DoDeleteSeason
    \/ DoAddCourse
    \/ DoCreateRound
    \/ DoUpdateRoundHole
    \/ DoCompleteRound

Spec == Init /\ [][Next]_vars

----------------------------------------------------------------------------
(* Playing rounds of one season: the snapshots the statistics are computed *)
(* from.  The store starts with a roster, an active season of all its      *)
(* players and a course; rounds are started, scored and finished, and      *)
(* players are removed from the roster after they have played.             *)

FirstIds == 1..MaxPlayers

InitStats ==
    /\ players = [i \in FirstIds |-> [id |-> i, name |-> PlainName]]
    /\ seasons = <<[id |-> 1, name |-> PlainName,
                    playerIds |-> [i \in FirstIds |-> i],
                    status |-> "active", completedAt |-> Undefined]>>
    /\ courses = <<[id |-> 1, name |-> PlainName]>>
    /\ rounds = <<>>
    /\ ids = [player |-> MaxPlayers + 1, season |-> 2, course |-> 2,
              round |-> 1]
    /\ clock = 1
    /\ view = NoView
    /\ exported = NoExport
    /\ Loaded

\* The scorecards entered for a hole: <<winnerIds, holeInOnePlayerIds>>.
\* No winner; one winner; a winner and an ace by the other player; a tie
\* with an ace.
HoleInputs ==
    {<< <<>>, <<>> >>,
     << <<1>>, <<>> >>,
     << <<2>>, <<1>> >>,
     << <<1, 2>>, <<2>> >>}

StartRound == DoCreateRound

SaveHole ==
    \E r \in RoundIds, h \in 1..MaxHole, in \in HoleInputs :
        UpdateRoundHole(r, h, in[1], in[2]) /\ StatsUnmounted

FinishRound == DoCompleteRound

LeaveRoster == DoRemovePlayer

\* The Statistics page mounts, or renders again, with a filter selected.
OpenStatistics == DoRender

NextStats ==
    \/ StartRound
    \/ SaveHole
    \/ FinishRound
    \/ LeaveRoster
    \/ OpenStatistics

SpecStats == InitStats /\ [][NextStats]_vars

----------------------------------------------------------------------------
(* Exporting: a played season whose player, course and season carry names  *)
(* drawn from the strings over Alphabet.                                   *)

Alphabet == {"=", "+", "-", "@", Tab, Comma, DQuote, Newline, SQuote, "a", " "}

\* All strings over Alphabet of length at most n
RECURSIVE Strings(_)
Strings(n) ==
    IF n = 0 THEN {<<>>}
    ELSE LET shorter == Strings(n - 1)
         IN shorter \cup {Append(t, c) : t \in shorter, c \in Alphabet}

Names == Strings(MaxNameLen)

\* Names typed for a course or a season.
TitleInputs == {<<"=">>, <<Comma>>, <<"a">>}

InitExport ==
    /\ \E n \in Names :
          /\ Trim(n) # <<>>
          /\ players = <<[id |-> 1, name |-> Trim(n)],
                         [id |-> 2, name |-> PlainName]>>
    /\ \E t \in TitleInputs :
          seasons = <<[id |-> 1, name |-> Trim(t), playerIds |-> <<1, 2>>,
                       status |-> "active", completedAt |-> Undefined]>>
    /\ \E t \in TitleInputs : courses = <<[id |-> 1, name |-> Trim(t)]>>
    /\ rounds = <<[id |-> 1, seasonId |-> 1, courseId |-> 1,
                   playerIds |-> <<1, 2>>,
                   holeResults |-> <<[holeNumber |-> 1,
                                      winnerIds |-> <<1, 2>>,
                                      holeInOnePlayerIds |-> <<>>]>>,
                   startedAt |-> 1, completedAt |-> 2]>>
    /\ ids = [player |-> 3, season |-> 2, course |-> 2, round |-> 2]
    /\ clock = 2
    /\ view = NoView
    /\ exported = NoExport
    /\ Loaded

\* updatePlayer: the name is stored as given
Rename == \E n \in Names : UpdatePlayer(1, n) /\ StatsUnmounted

NextExport ==
    \/ Rename
    \/ DoRender
    \/ handleExportCSV
    \/ handleExportXLSX

SpecExport == InitExport /\ [][NextExport]_vars

----------------------------------------------------------------------------
(* Playing at newly added courses: the AddCourse page starts a round at a  *)
(* course it has just added, with the players selected from the season's   *)
(* members; the PlayRound page enters each hole's winners and hole-in-ones *)
(* from the season's members.                                              *)

\* seasonPlayers: the members of the season that are in the roster
SeasonPlayers(season) ==
    SelectSeq(players, LAMBDA p : p.id \in Range(season.playerIds))

\* seasonPlayers.map(p => p.id)
SeasonPlayerIds(season) ==
    [i \in DOMAIN SeasonPlayers(season) |-> SeasonPlayers(season)[i].id]

\* AddCourse.handleStartPlaying: adds the course, then a round at it
HandleStartPlaying(locationName, selectedPlayerIds) ==
    /\ Trim(locationName) # <<>>
    /\ Len(selectedPlayerIds) >= 2
    /\ GetActiveSeason # NotFound
    /\ ids.round <= MaxRounds
    /\ courses' = Append(courses, [id |-> ids.course,
                                   name |-> Trim(locationName)])
    /\ rounds' = Append(rounds, [id |-> ids.round,
                                 seasonId |-> GetActiveSeason.id,
                                 courseId |-> ids.course,
                                 playerIds |-> selectedPlayerIds,
                                 holeResults |-> <<>>,
                                 startedAt |-> clock,
                                 completedAt |-> Undefined])
    /\ ids' = [ids EXCEPT !.course = @ + 1, !.round = @ + 1]
    /\ clock' = clock + 1
    /\ UNCHANGED <<players, seasons>>
    /\ Persisted

\* Names typed for the location of a course.
LocationNames == {PlainName, OtherName}

\* The players left selected on the AddCourse page: all the season's players,
\* or all but the last.
Selections(season) ==
    {SeasonPlayerIds(season),
     SubSeq(SeasonPlayerIds(season), 1, Len(SeasonPlayerIds(season)) - 1)}

\* The scorecards entered for a hole, <<winnerIds, holeInOnePlayerIds>>, from
\* the season's players: nobody; the first wins and the last aces; the last
\* wins and the first aces.
Scorecards(season) ==
    LET sp == SeasonPlayerIds(season)
    IN {<< <<>>, <<>> >>,
        << <<sp[1]>>, <<sp[Len(sp)]>> >>,
        << <<sp[Len(sp)]>>, <<sp[1]>> >>}

Members == 1..(MaxPlayers + 1)

InitPlay ==
    /\ players = [i \in Members |-> [id |-> i, name |-> PlainName]]
    /\ seasons = <<[id |-> 1, name |-> PlainName,
                    playerIds |-> [i \in Members |-> i],
                    status |-> "active", completedAt |-> Undefined]>>
    /\ courses = <<>>
    /\ rounds = <<>>
    /\ ids = [player |-> MaxPlayers + 2, season |-> 2, course |-> 1,
              round |-> 1]
    /\ clock = 1
    /\ view = NoView
    /\ exported = NoExport
    /\ Loaded

StartPlaying ==
    /\ GetActiveSeason # NotFound
    /\ \E name \in LocationNames, sel \in Selections(GetActiveSeason) :
          HandleStartPlaying(name, sel)
    /\ StatsUnmounted

\* PlayRound.handleSaveHole on the next hole of a round in progress
PlayHole ==
    /\ GetActiveSeason # NotFound
    /\ \E i \in DOMAIN rounds :
          /\ rounds[i].completedAt = Undefined
          /\ Len(rounds[i].holeResults) < MaxHole
          /\ \E card \in Scorecards(GetActiveSeason) :
                UpdateRoundHole(rounds[i].id, Len(rounds[i].holeResults) + 1,
                                card[1], card[2])
    /\ StatsUnmounted

\* PlayRound.handleFinishRound on a round in progress
FinishPlay ==
    /\ \E i \in DOMAIN rounds :
          /\ rounds[i].completedAt = Undefined
          /\ CompleteRound(rounds[i].id)
    /\ StatsUnmounted

NextPlay ==
    \/ StartPlaying
    \/ PlayHole
    \/ FinishPlay
    \/ OpenStatistics

SpecPlay == InitPlay /\ [][NextPlay]_vars

----------------------------------------------------------------------------
(* What one round contributes to the rendered player statistics.           *)

RECURSIVE SumTo(_, _)
SumTo(s, n) == IF n = 0 THEN 0 ELSE s[n] + SumTo(s, n - 1)

SumSeq(s) == SumTo(s, Len(s))

\* The rounds the mounted page has aggregated, in order.
ViewRounds == FilteredRounds(view.selectedSeasonId)

\* What the k-th round added to field fld of the i-th roster player.
Gain(k, i, fld) == view.trace[k + 1][i][fld] - view.trace[k][i][fld]

TotalGain(k, fld) == SumSeq([i \in DOMAIN players |-> Gain(k, i, fld)])

HistoryGain(k, i) ==
    Len(view.trace[k + 1][i].courseHistory)
    - Len(view.trace[k][i].courseHistory)

\* The entries of the lists of field fld of a round's hole results: all of
\* them, and those naming a roster player.
Entries(round, fld) ==
    SumSeq([h \in DOMAIN round.holeResults |-> Len(round.holeResults[h][fld])])

RosterEntries(round, fld) ==
    SumSeq([h \in DOMAIN round.holeResults |->
              Cardinality({j \in DOMAIN round.holeResults[h][fld] :
                             round.holeResults[h][fld][j] \in RosterIds})])

\* The hole results of a round that list the id in field fld.
ListedIn(round, id, fld) ==
    Cardinality({h \in DOMAIN round.holeResults :
                   id \in Range(round.holeResults[h][fld])})

Completed(round) == round.completedAt # Undefined

\* The largest holes-won sum a roster player has within the k-th round.
RoundMax(k) ==
    LET sums == {Gain(k, i, "holesWon") : i \in DOMAIN players} \cup {0}
    IN CHOOSE m \in sums : \A v \in sums : v <= m

HasWinner(round) ==
    \E h \in DOMAIN round.holeResults : round.holeResults[h].winnerIds # <<>>

HasRosterWinner(round) ==
    \E h \in DOMAIN round.holeResults :
        Range(round.holeResults[h].winnerIds) \cap RosterIds # {}

----------------------------------------------------------------------------
(* C1 *)

\* C1 (as stated): for every round, the holes-won increments it contributes
\* over all players equal the number of winner entries of its hole results,
\* also when a winner id is no longer in the roster.
C1_AllWinnerEntriesCounted ==
    view.mounted =>
        \A k \in DOMAIN ViewRounds :
            TotalGain(k, "holesWon") = Entries(ViewRounds[k], "winnerIds")

\* C1 (amended): for every round, the holes-won increments it contributes
\* over all players equal the number of winner entries of its hole results
\* that name a roster player: one increment per rostered winner per hole, two
\* for a hole with two rostered winners, none for an id not in the roster.
C1_RosterWinnerEntriesCounted ==
    view.mounted =>
        \A k \in DOMAIN ViewRounds :
            TotalGain(k, "holesWon") = RosterEntries(ViewRounds[k], "winnerIds")

\* Rendered: a round with a hole tied by a roster player and a player who
\* has left the roster; it counts once, for the roster player.
C1_Witness ==
    /\ view.mounted
    /\ \E k \in DOMAIN ViewRounds :
          /\ \E h \in DOMAIN ViewRounds[k].holeResults :
                /\ Len(ViewRounds[k].holeResults[h].winnerIds) = 2
                /\ Range(ViewRounds[k].holeResults[h].winnerIds)
                      \cap RosterIds # {}
                /\ ~(Range(ViewRounds[k].holeResults[h].winnerIds)
                       \subseteq RosterIds)
          /\ TotalGain(k, "holesWon") >= 1
          /\ TotalGain(k, "holesWon") < Entries(ViewRounds[k], "winnerIds")

----------------------------------------------------------------------------
(* C2 *)

\* C2 (as stated): a completed round with a hole that has a winner gives a
\* round win to at least one player; a round without any winner gives none.
C2_SomeoneWinsEveryWonRound ==
    view.mounted =>
        \A k \in DOMAIN ViewRounds :
            /\ Completed(ViewRounds[k]) /\ HasWinner(ViewRounds[k])
                  => TotalGain(k, "totalWins") >= 1
            /\ ~HasWinner(ViewRounds[k]) => TotalGain(k, "totalWins") = 0

\* C2 (amended): a completed round with a hole won by a roster player gives a
\* round win to at least one player; a round in which no hole was won by a
\* roster player (no winner at all, or only ids that left the roster) gives
\* none.
C2_SomeoneWinsEveryRosterWonRound ==
    view.mounted =>
        \A k \in DOMAIN ViewRounds :
            /\ Completed(ViewRounds[k]) /\ HasRosterWinner(ViewRounds[k])
                  => TotalGain(k, "totalWins") >= 1
            /\ ~HasRosterWinner(ViewRounds[k])
                  => TotalGain(k, "totalWins") = 0

\* Rendered: a completed round won by a roster player next to a completed
\* round whose only winner has left the roster.
C2_Witness ==
    /\ view.mounted
    /\ \E i, j \in DOMAIN ViewRounds :
          /\ Completed(ViewRounds[i]) /\ HasRosterWinner(ViewRounds[i])
          /\ TotalGain(i, "totalWins") >= 1
          /\ Completed(ViewRounds[j]) /\ HasWinner(ViewRounds[j])
          /\ ~HasRosterWinner(ViewRounds[j])
          /\ TotalGain(j, "totalWins") = 0

----------------------------------------------------------------------------
(* C3 *)

----------------------------------------------------------------------------
(* C4 *)

\* C4: a round in progress adds its hole winners and hole-in-ones to the
\* players' holesWon and holeInOnes, but no round win and no course-history
\* entry; a course's and a season's roundsPlayed count completed rounds only,
\* and every course-ranking entry is the score of a completed round.
C4_InProgressRounds ==
    view.mounted =>
        /\ \A k \in DOMAIN ViewRounds :
              ~Completed(ViewRounds[k]) =>
                  \A i \in DOMAIN players :
                      /\ Gain(k, i, "holesWon")
                            = ListedIn(ViewRounds[k], players[i].id, "winnerIds")
                      /\ Gain(k, i, "holeInOnes")
                            = ListedIn(ViewRounds[k], players[i].id,
                                       "holeInOnePlayerIds")
                      /\ Gain(k, i, "totalWins") = 0
                      /\ HistoryGain(k, i) = 0
        /\ \A c \in DOMAIN view.courseStats :
              LET cs == view.courseStats[c]
              IN /\ cs.roundsPlayed
                      = Cardinality({k \in DOMAIN ViewRounds :
                                       /\ ViewRounds[k].courseId = cs.course.id
                                       /\ Completed(ViewRounds[k])})
                 /\ \A e \in DOMAIN cs.rankings :
                       \E k \in DOMAIN ViewRounds :
                           /\ Completed(ViewRounds[k])
                           /\ ViewRounds[k].courseId = cs.course.id
                           /\ ViewRounds[k].startedAt = cs.rankings[e].date
                           /\ ListedIn(ViewRounds[k], cs.rankings[e].player.id,
                                       "winnerIds") = cs.rankings[e].score
        /\ \A n \in DOMAIN view.seasonStats :
              view.seasonStats[n].roundsPlayed
                  = Cardinality({k \in DOMAIN rounds :
                                   /\ rounds[k].seasonId
                                         = view.seasonStats[n].season.id
                                   /\ Completed(rounds[k])})

\* Rendered: a round in progress in which a roster player has won a hole and
\* aced one, next to a completed round; only the completed round is counted.
C4_Witness ==
    /\ view.mounted
    /\ \E k \in DOMAIN ViewRounds, i \in DOMAIN players :
          /\ ~Completed(ViewRounds[k])
          /\ Gain(k, i, "holesWon") >= 1
          /\ Gain(k, i, "holeInOnes") >= 1
    /\ \E k \in DOMAIN ViewRounds : Completed(ViewRounds[k])
    /\ view.courseStats[1].roundsPlayed = 1
    /\ view.seasonStats[1].roundsPlayed = 1

----------------------------------------------------------------------------
(* The cells of an export.                                                 *)

StartsFormula(str) == str # <<>> /\ Head(str) \in FormulaChars

HasDelimiter(str) ==
    Includes(str, Comma) \/ Includes(str, DQuote) \/ Includes(str, Newline)

\* Standard delimited-text quoting of a value, applied once.
Quoted(str) == <<DQuote>> \o DoubleQuotes(str) \o <<DQuote>>

\* The value the formula guard makes of a name.
Guarded(str) == IF StartsFormula(str) THEN <<SQuote>> \o str ELSE str

\* The name of the player of the r-th data row of the player table.
RowName(r) == view.playerStats[r].name

\* The player-name cell of the r-th data row of the exported CSV.
CsvNameCell(r) == exported.cells[r + 1][2]

\* The sheet of that name in the exported workbook, if it has one.
SheetsNamed(name) ==
    {k \in DOMAIN exported.sheets : exported.sheets[k].sheet = name}

----------------------------------------------------------------------------
(* C5 *)

\* C5: a name beginning with '=', '+', '-', '@' or a tab is sanitized to a
\* single quote followed by the name unchanged; a name without such a prefix
\* and without comma, double quote or newline is sanitized to itself.  (The
\* Player cells of the workbook's first sheet are sanitizeCSVValue of the
\* names.)
C5_GuardOrIdentity ==
    exported.kind = "xlsx" =>
        \A r \in DOMAIN exported.sheets[1].rows :
            /\ StartsFormula(RowName(r))
                  => exported.sheets[1].rows[r].Player
                        = <<SQuote>> \o RowName(r)
            /\ ~StartsFormula(RowName(r)) /\ ~HasDelimiter(RowName(r))
                  => exported.sheets[1].rows[r].Player = RowName(r)

\* Exported: a workbook with a player whose name begins with '@' and a player
\* whose name is plain.
C5_Witness ==
    /\ exported.kind = "xlsx"
    /\ \E r \in DOMAIN exported.sheets[1].rows :
          /\ RowName(r) # <<>> /\ Head(RowName(r)) = "@"
          /\ Len(exported.sheets[1].rows[r].Player) = Len(RowName(r)) + 1
    /\ \E r \in DOMAIN exported.sheets[1].rows :
          /\ RowName(r) = PlainName
          /\ exported.sheets[1].rows[r].Player = PlainName

----------------------------------------------------------------------------
(* C6 *)

\* C6: in the CSV, a name that both begins with '=', '+', '-', '@' or a tab
\* and contains a comma, double quote or newline is written with the single
\* quote in front, wrapped in double quotes, its double quotes doubled.
C6_GuardedAndQuoted ==
    exported.kind = "csv" =>
        \A r \in DOMAIN view.playerStats :
            StartsFormula(RowName(r)) /\ HasDelimiter(RowName(r))
                => CsvNameCell(r) = Quoted(<<SQuote>> \o RowName(r))

\* Exported: a CSV with a player named '=' followed by a double quote.
C6_Witness ==
    /\ exported.kind = "csv"
    /\ \E r \in DOMAIN view.playerStats :
          /\ RowName(r) = <<"=", DQuote>>
          /\ CsvNameCell(r) = <<DQuote, SQuote, "=", DQuote, DQuote, DQuote>>

----------------------------------------------------------------------------
(* C7 *)

\* C7: in the CSV, every player-name cell whose name contains a comma, a
\* double quote or a newline is the guarded name wrapped in one pair of
\* double quotes with each of its double quotes doubled once.
C7_QuotedOnce ==
    exported.kind = "csv" =>
        \A r \in DOMAIN view.playerStats :
            HasDelimiter(RowName(r))
                => CsvNameCell(r) = Quoted(Guarded(RowName(r)))

\* What the CSV holds for such a name without a formula prefix: the quoted
\* name quoted again.
C7_QuotedTwice ==
    exported.kind = "csv" =>
        \A r \in DOMAIN view.playerStats :
            HasDelimiter(RowName(r)) /\ ~StartsFormula(RowName(r))
                => CsvNameCell(r) = Quoted(Quoted(RowName(r)))

----------------------------------------------------------------------------
(* C8 *)

\* C8: no player, course or season name cell of the CSV or of a sheet of the
\* workbook begins with '=', '+', '-', '@' or a tab, and a player whose name
\* begins with one of them (and needs no quoting) is written as a single
\* quote followed by the name in the CSV and in every sheet that has the
\* player.
C8_EveryNameGuarded ==
    /\ exported.kind = "csv" =>
          \A r \in DOMAIN view.playerStats :
              /\ ~StartsFormula(CsvNameCell(r))
              /\ StartsFormula(RowName(r)) /\ ~HasDelimiter(RowName(r))
                    => CsvNameCell(r) = <<SQuote>> \o RowName(r)
    /\ exported.kind = "xlsx" =>
          /\ \A k \in DOMAIN exported.sheets :
                \A r \in DOMAIN exported.sheets[k].rows :
                    ~StartsFormula(exported.sheets[k].rows[r].Player)
          /\ \A k \in SheetsNamed("Course Rankings") :
                \A r \in DOMAIN exported.sheets[k].rows :
                    ~StartsFormula(exported.sheets[k].rows[r].Course)
          /\ \A k \in SheetsNamed("Season Standings") :
                \A r \in DOMAIN exported.sheets[k].rows :
                    ~StartsFormula(exported.sheets[k].rows[r].Season)
          /\ \A r \in DOMAIN view.playerStats :
                StartsFormula(RowName(r)) =>
                    /\ exported.sheets[1].rows[r].Player
                          = <<SQuote>> \o RowName(r)
                    /\ \A c \in DOMAIN view.courseStats :
                          \A i \in DOMAIN view.courseStats[c].rankings :
                              view.courseStats[c].rankings[i].player.id
                                    = view.playerStats[r].playerId
                                => \E k \in SheetsNamed("Course Rankings") :
                                     \E x \in DOMAIN exported.sheets[k].rows :
                                       /\ exported.sheets[k].rows[x].Rank = i
                                       /\ exported.sheets[k].rows[x].Player
                                             = <<SQuote>> \o RowName(r)
                    /\ \A n \in DOMAIN view.seasonStats :
                          \A i \in DOMAIN view.seasonStats[n].leaderboard :
                              view.seasonStats[n].leaderboard[i].player.id
                                    = view.playerStats[r].playerId
                                => \E k \in SheetsNamed("Season Standings") :
                                     \E x \in DOMAIN exported.sheets[k].rows :
                                       /\ exported.sheets[k].rows[x].Rank = i
                                       /\ exported.sheets[k].rows[x].Player
                                             = <<SQuote>> \o RowName(r)

\* Exported: a workbook of three sheets in which a player named "=a", a
\* course named "=" and a season named "=" are written guarded.
C8_Witness ==
    /\ exported.kind = "xlsx"
    /\ Len(exported.sheets) = 3
    /\ \A k \in DOMAIN exported.sheets :
          \E r \in DOMAIN exported.sheets[k].rows :
              exported.sheets[k].rows[r].Player = <<SQuote, "=", "a">>
    /\ exported.sheets[2].rows[1].Course = <<SQuote, "=">>
    /\ exported.sheets[3].rows[1].Season = <<SQuote, "=">>

----------------------------------------------------------------------------
(* C9 *)

ActiveSeasons == {i \in DOMAIN seasons : seasons[i].status = "active"}

\* C9: at most one season has status 'active'.
C9_AtMostOneActive == Cardinality(ActiveSeasons) <= 1

----------------------------------------------------------------------------
(* C10 *)

----------------------------------------------------------------------------
(* C11 *)

\* The player took part in a round of the filtered set.
TookPart(id) ==
    \E k \in DOMAIN ViewRounds : id \in Range(ViewRounds[k].playerIds)

AllZero(stat) ==
    /\ stat.totalWins = 0
    /\ stat.holesWon = 0
    /\ stat.holeInOnes = 0
    /\ stat.roundsPlayed = 0
    /\ stat.courseHistory = <<>>

\* The player list has exactly one entry per roster player.
RosterListed ==
    /\ Len(view.playerStats) = Len(players)
    /\ \A p \in DOMAIN players :
          Cardinality({i \in DOMAIN view.playerStats :
                         view.playerStats[i].playerId = players[p].id}) = 1

\* Without rounds every count is 0 and every ranking and leaderboard empty.
EmptyIsZero ==
    /\ ViewRounds = <<>> =>
          /\ \A i \in DOMAIN view.playerStats : AllZero(view.playerStats[i])
          /\ \A c \in DOMAIN view.courseStats :
                view.courseStats[c].rankings = <<>>
    /\ rounds = <<>> =>
          \A n \in DOMAIN view.seasonStats :
              view.seasonStats[n].leaderboard = <<>>

\* C11: the player list has exactly one entry per roster player; a player
\* who took part in no round of the filtered set has all counts 0 and an
\* empty history; without rounds every count is 0 and every course ranking
\* and season leaderboard is empty.
C11_RosterComplete ==
    view.mounted =>
        /\ RosterListed
        /\ \A i \in DOMAIN view.playerStats :
              ~TookPart(view.playerStats[i].playerId)
                  => AllZero(view.playerStats[i])
        /\ EmptyIsZero

\* What does hold of C11: the roster is listed, and nothing is counted
\* without rounds.
C11_ListedAndEmptyZero == view.mounted => RosterListed /\ EmptyIsZero

----------------------------------------------------------------------------
(* C12 *)

\* The rounds of the filtered set that list the id as a participant.
RoundsOf(id) ==
    {k \in DOMAIN ViewRounds : id \in Range(ViewRounds[k].playerIds)}

\* C12: every roster player's roundsPlayed is the number of rounds of the
\* filtered set whose participant list contains the player, completed or in
\* progress, whatever the holes won.
C12_RoundsPlayed ==
    view.mounted =>
        \A i \in DOMAIN view.playerStats :
            view.playerStats[i].roundsPlayed
                = Cardinality(RoundsOf(view.playerStats[i].playerId))

\* Rendered: a completed round and a round in progress; a player who took
\* part in both and won no hole, and a player who took part in one of them.
C12_Witness ==
    /\ view.mounted
    /\ Len(ViewRounds) = 2
    /\ Completed(ViewRounds[1]) /\ ~Completed(ViewRounds[2])
    /\ \E i \in DOMAIN view.playerStats :
          /\ view.playerStats[i].roundsPlayed = 2
          /\ view.playerStats[i].holesWon = 0
    /\ \E i \in DOMAIN view.playerStats :
          view.playerStats[i].roundsPlayed = 1

----------------------------------------------------------------------------
(* C13 *)

\* The position of the player of that id in the roster.
RosterIndex(id) == CHOOSE p \in DOMAIN players : players[p].id = id

\* C13: the player list is sorted by holesWon in non-increasing order, and
\* players with equal holesWon are in the order they have in the roster.
C13_SortedStable ==
    view.mounted =>
        \A i, j \in DOMAIN view.playerStats :
            i < j =>
                /\ view.playerStats[i].holesWon >= view.playerStats[j].holesWon
                /\ view.playerStats[i].holesWon = view.playerStats[j].holesWon
                      => RosterIndex(view.playerStats[i].playerId)
                            < RosterIndex(view.playerStats[j].playerId)

\* Rendered: the first and the last player of the roster are tied with holes
\* won and listed in that order, ahead of the second player.
C13_Witness ==
    /\ view.mounted
    /\ Len(view.playerStats) = 3
    /\ view.playerStats[1].playerId = players[1].id
    /\ view.playerStats[2].playerId = players[3].id
    /\ view.playerStats[1].holesWon = view.playerStats[2].holesWon
    /\ view.playerStats[2].holesWon > view.playerStats[3].holesWon

----------------------------------------------------------------------------
(* C14 *)

\* The name of the course of that id, or the placeholder.
CourseTitle(courseId) ==
    LET hits == {c \in DOMAIN courses : courses[c].id = courseId}
    IN IF hits = {} THEN Unknown ELSE courses[CHOOSE c \in hits : TRUE].name

\* The completed rounds of the filtered set the player took part in, in order.
CompletedRoundsOf(id) ==
    SelectSeq(ViewRounds,
              LAMBDA r : Completed(r) /\ id \in Range(r.playerIds))

\* One history entry per such round.
ExpectedHistory(id) ==
    [j \in DOMAIN CompletedRoundsOf(id) |->
        [courseId |-> CompletedRoundsOf(id)[j].courseId,
         courseName |-> CourseTitle(CompletedRoundsOf(id)[j].courseId),
         score |-> ListedIn(CompletedRoundsOf(id)[j], id, "winnerIds"),
         date |-> CompletedRoundsOf(id)[j].startedAt,
         holeInOnes |-> ListedIn(CompletedRoundsOf(id)[j], id,
                                 "holeInOnePlayerIds")]]

----------------------------------------------------------------------------
(* C15 *)

\* The completed rounds of the filtered set at the course.
CompletedAt(courseId) ==
    {k \in DOMAIN ViewRounds :
        Completed(ViewRounds[k]) /\ ViewRounds[k].courseId = courseId}

\* The holes the player won in the k-th round of the filtered set.
ScoreIn(k, id) == ListedIn(ViewRounds[k], id, "winnerIds")

\* The player's best single-round score at the course.
BestAt(courseId, id) ==
    LET scores == {ScoreIn(k, id) : k \in CompletedAt(courseId)} \cup {0}
    IN CHOOSE m \in scores : \A v \in scores : v <= m

\* The first completed round at the course in which the player has the score.
FirstWith(courseId, id, score) ==
    LET ks == {k \in CompletedAt(courseId) : ScoreIn(k, id) = score}
    IN CHOOSE k \in ks : \A j \in ks : k <= j

\* C15: a course ranking lists, for each of its players, the maximum of the
\* player's single-round holes-won sums over the completed rounds at the
\* course and the start date of the first round reaching it, sorted by score
\* in non-increasing order.
C15_BestScoreAndDate ==
    view.mounted =>
        \A c \in DOMAIN view.courseStats :
            LET courseId == view.courseStats[c].course.id
                rankings == view.courseStats[c].rankings
            IN /\ \A e \in DOMAIN rankings :
                     /\ rankings[e].score
                           = BestAt(courseId, rankings[e].player.id)
                     /\ \E k \in CompletedAt(courseId) :
                           ScoreIn(k, rankings[e].player.id) = rankings[e].score
                     /\ rankings[e].date
                           = ViewRounds[FirstWith(courseId,
                                                  rankings[e].player.id,
                                                  rankings[e].score)].startedAt
               /\ \A a, b \in DOMAIN rankings :
                     a < b => rankings[a].score >= rankings[b].score

\* Rendered: two completed rounds at a course; one player scores 1 then 2 and
\* is ranked first with the date of the second round, the other scores 1 in
\* both and is ranked with the date of the first.
C15_Witness ==
    /\ view.mounted
    /\ Len(ViewRounds) = 2
    /\ CompletedAt(1) = {1, 2}
    /\ Len(view.courseStats[1].rankings) = 2
    /\ view.courseStats[1].rankings[1].score = 2
    /\ view.courseStats[1].rankings[1].date = ViewRounds[2].startedAt
    /\ ScoreIn(1, view.courseStats[1].rankings[1].player.id) = 1
    /\ view.courseStats[1].rankings[2].score = 1
    /\ view.courseStats[1].rankings[2].date = ViewRounds[1].startedAt
    /\ ScoreIn(2, view.courseStats[1].rankings[2].player.id) = 1

----------------------------------------------------------------------------
(* C16 *)

\* C16: every roster player who took part in a completed round at a course
\* is in that course's ranking with the best single-round score there, a
\* participant who won no hole with score 0.
C16_ParticipantsRanked ==
    view.mounted =>
        \A c \in DOMAIN view.courseStats, p \in DOMAIN players :
            LET courseId == view.courseStats[c].course.id
                rankings == view.courseStats[c].rankings
            IN (\E k \in CompletedAt(courseId) :
                    players[p].id \in Range(ViewRounds[k].playerIds))
               => \E e \in DOMAIN rankings :
                     /\ rankings[e].player.id = players[p].id
                     /\ rankings[e].score = BestAt(courseId, players[p].id)

\* What the code ranks: the roster players who won a hole in a completed
\* round at the course.
C16_WinnersRanked ==
    view.mounted =>
        \A c \in DOMAIN view.courseStats, p \in DOMAIN players :
            LET courseId == view.courseStats[c].course.id
                rankings == view.courseStats[c].rankings
            IN (\E e \in DOMAIN rankings :
                    rankings[e].player.id = players[p].id)
               <=> BestAt(courseId, players[p].id) > 0

----------------------------------------------------------------------------
(* C17 *)

\* The hole results of all rounds of the season that list the id in fld.
SeasonTotal(seasonId, id, fld) ==
    SumSeq([k \in DOMAIN rounds |->
              IF rounds[k].seasonId = seasonId
              THEN ListedIn(rounds[k], id, fld) ELSE 0])

\* Where the traversal of the season's rounds meets the id: (round, hole,
\* winners before hole-in-ones, position), as one number.
Discoveries(seasonId, id) ==
    UNION {UNION {{((k * 10 + h) * 2) * 10 + j :
                      j \in {x \in DOMAIN rounds[k].holeResults[h].winnerIds :
                               rounds[k].holeResults[h].winnerIds[x] = id}}
                  \cup
                  {((k * 10 + h) * 2 + 1) * 10 + j :
                      j \in {x \in DOMAIN
                                    rounds[k].holeResults[h].holeInOnePlayerIds :
                               rounds[k].holeResults[h].holeInOnePlayerIds[x]
                                   = id}} :
                  h \in DOMAIN rounds[k].holeResults} :
           k \in {r \in DOMAIN rounds : rounds[r].seasonId = seasonId}}

FirstDiscovery(seasonId, id) ==
    CHOOSE d \in Discoveries(seasonId, id) :
        \A e \in Discoveries(seasonId, id) : d <= e

\* C17: a season's leaderboard lists, for each of its players, the number of
\* hole results of all the season's rounds (in progress or completed) whose
\* winner set has the player, and the same over the hole-in-one sets; it is
\* sorted by score in non-increasing order, equal scores in the order the
\* players are first met (round, then hole, winners before hole-in-ones).
C17_SeasonLeaderboard ==
    view.mounted =>
        \A n \in DOMAIN view.seasonStats :
            LET seasonId == view.seasonStats[n].season.id
                board == view.seasonStats[n].leaderboard
            IN /\ \A e \in DOMAIN board :
                     /\ board[e].score
                           = SeasonTotal(seasonId, board[e].player.id,
                                         "winnerIds")
                     /\ board[e].holeInOnes
                           = SeasonTotal(seasonId, board[e].player.id,
                                         "holeInOnePlayerIds")
               /\ \A a, b \in DOMAIN board :
                     a < b =>
                        /\ board[a].score >= board[b].score
                        /\ board[a].score = board[b].score
                              => FirstDiscovery(seasonId, board[a].player.id)
                                    < FirstDiscovery(seasonId,
                                                     board[b].player.id)

\* Rendered: a leaderboard on which the second player of the roster, met
\* first, is listed before the first player at equal score, counting a round
\* still in progress.
C17_Witness ==
    /\ view.mounted
    /\ Len(players) = 2
    /\ \E k \in DOMAIN rounds : ~Completed(rounds[k]) /\ HasWinner(rounds[k])
    /\ Len(view.seasonStats[1].leaderboard) = 2
    /\ view.seasonStats[1].leaderboard[1].player.id = players[2].id
    /\ view.seasonStats[1].leaderboard[2].player.id = players[1].id
    /\ view.seasonStats[1].leaderboard[1].score
          = view.seasonStats[1].leaderboard[2].score
    /\ view.seasonStats[1].leaderboard[1].score >= 1
    /\ view.seasonStats[1].leaderboard[2].holeInOnes >= 1

----------------------------------------------------------------------------
(* C18 *)

\* The ids a round refers to: participants, winners, hole-in-ones.
IdsOf(round) ==
    Range(round.playerIds)
    \cup UNION {Range(round.holeResults[h].winnerIds)
                \cup Range(round.holeResults[h].holeInOnePlayerIds) :
                h \in DOMAIN round.holeResults}

\* The ids rounds refer to that are not in the roster.
DanglingIds == UNION {IdsOf(rounds[k]) : k \in DOMAIN rounds} \ RosterIds

\* C18: with ids in winner sets, hole-in-one sets or participant lists that
\* are not in the roster, aggregation completes; each roster player's
\* counters are what the player's own listings give (the round win going to
\* the roster players at the maximum among roster players); and every
\* player-stats, course-ranking and season-leaderboard entry is a roster
\* player.
C18_DanglingIdsIgnored ==
    view.mounted =>
        /\ \A i \in DOMAIN view.playerStats :
              view.playerStats[i].playerId \in RosterIds
        /\ \A c \in DOMAIN view.courseStats :
              \A e \in DOMAIN view.courseStats[c].rankings :
                  view.courseStats[c].rankings[e].player \in Range(players)
        /\ \A n \in DOMAIN view.seasonStats :
              \A e \in DOMAIN view.seasonStats[n].leaderboard :
                  view.seasonStats[n].leaderboard[e].player \in Range(players)
        /\ \A k \in DOMAIN ViewRounds, i \in DOMAIN players :
              /\ Gain(k, i, "roundsPlayed")
                    = IF players[i].id \in Range(ViewRounds[k].playerIds)
                      THEN 1 ELSE 0
              /\ Gain(k, i, "holesWon")
                    = ListedIn(ViewRounds[k], players[i].id, "winnerIds")
              /\ Gain(k, i, "holeInOnes")
                    = ListedIn(ViewRounds[k], players[i].id,
                               "holeInOnePlayerIds")
              /\ Gain(k, i, "totalWins")
                    = IF /\ Completed(ViewRounds[k])
                         /\ RoundMax(k) > 0
                         /\ Gain(k, i, "holesWon") = RoundMax(k)
                      THEN 1 ELSE 0

\* Rendered: a completed round in which a player who has left the roster won
\* the most holes and made a hole-in-one; the remaining player is the only
\* entry of the player list, the course ranking and the season leaderboard.
C18_Witness ==
    /\ view.mounted
    /\ Len(players) = 1
    /\ \E d \in DanglingIds, k \in DOMAIN ViewRounds :
          /\ Completed(ViewRounds[k])
          /\ ListedIn(ViewRounds[k], d, "winnerIds") = 2
          /\ ListedIn(ViewRounds[k], d, "holeInOnePlayerIds") >= 1
          /\ ListedIn(ViewRounds[k], players[1].id, "winnerIds") = 1
    /\ Len(view.playerStats) = 1
    /\ Len(view.courseStats[1].rankings) = 1
    /\ Len(view.seasonStats[1].leaderboard) = 1

----------------------------------------------------------------------------
(* C19 *)

\* C19: a season's playerCount is the number of its member ids, also after
\* a member has been removed from the roster.
C19_PlayerCountIsMembers ==
    view.mounted =>
        \A n \in DOMAIN view.seasonStats :
            view.seasonStats[n].playerCount
                = Len(view.seasonStats[n].season.playerIds)

\* What the code reports: the members that are still in the roster.
C19_PlayerCountIsRosterMembers ==
    view.mounted =>
        \A n \in DOMAIN view.seasonStats :
            view.seasonStats[n].playerCount
                = Cardinality(Range(view.seasonStats[n].season.playerIds)
                              \cap RosterIds)

----------------------------------------------------------------------------
(* C20 *)

\* C20: no step changes the playerIds of a season that exists before and
\* after it.
C20_MembershipFixed ==
    [][\A i \in DOMAIN seasons, j \in DOMAIN seasons' :
          seasons[i].id = seasons'[j].id
              => seasons'[j].playerIds = seasons[i].playerIds]_vars

\* Reached: a completed season with a member that has left the roster, a
\* renamed player, and a completed round of the season with a hole result.
C20_Witness ==
    \E i \in DOMAIN seasons :
        /\ seasons[i].status = "completed"
        /\ Len(seasons[i].playerIds) = 2
        /\ \E m \in Range(seasons[i].playerIds) : m \notin RosterIds
        /\ \E p \in DOMAIN players : players[p].name = OtherName
        /\ \E k \in DOMAIN rounds :
              /\ rounds[k].seasonId = seasons[i].id
              /\ Completed(rounds[k])
              /\ rounds[k].holeResults # <<>>

----------------------------------------------------------------------------
(* Removing a player after looking at the statistics: the figures the page *)
(* showed are kept in mind while the roster is edited on ManagePlayers, and *)
(* are compared with the next render.                                      *)

\* The Statistics page left behind: not mounted, its last player statistics
\* (in roster order) and filter remembered.
Seen(v) ==
    [mounted |-> FALSE,
     shown |-> [selectedSeasonId |-> v.selectedSeasonId,
                stats |-> v.trace[Len(v.trace)]]]

\* ManagePlayers: removePlayer on a roster entry, coming from Statistics
RemoveSeenPlayer ==
    /\ view.mounted
    /\ \E p \in RosterIds : RemovePlayer(p)
    /\ view' = Seen(view)
    /\ exported' = NoExport

NextRemoval ==
    \/ StartRound
    \/ SaveHole
    \/ FinishRound
    \/ RemoveSeenPlayer
    \/ OpenStatistics

SpecRemoval == InitStats /\ [][NextRemoval]_vars

----------------------------------------------------------------------------
(* C21 *)

Counts(stat) ==
    <<stat.totalWins, stat.holesWon, stat.holeInOnes, stat.roundsPlayed>>

\* A step that takes a player out of the roster.
RosterShrinks == Len(players') < Len(players)

\* removePlayer leaves seasons, courses and rounds as they are, and keeps the
\* other roster entries in their order.
RemovalFrame ==
    /\ <<seasons, courses, rounds>>' = <<seasons, courses, rounds>>
    /\ \E p \in RosterIds :
          players' = SelectSeq(players, LAMBDA x : x.id # p)

\* The page renders again, with the filter it had, after a removal.
RendersAfterRemoval ==
    /\ ~view.mounted
    /\ view # NoView
    /\ view'.mounted
    /\ view'.selectedSeasonId = view.shown.selectedSeasonId

\* C21 (as stated): removePlayer removes only the roster entry and leaves
\* seasons, courses and rounds unchanged, and every player still in the
\* roster has the same total wins, holes won, hole-in-ones and rounds played
\* after the removal as before it.
C21_RemovalKeepsCounts ==
    [][/\ RosterShrinks => RemovalFrame
       /\ RendersAfterRemoval =>
             \A i \in DOMAIN view.shown.stats, j \in DOMAIN view'.playerStats :
                 view.shown.stats[i].playerId = view'.playerStats[j].playerId
                     => Counts(view'.playerStats[j])
                           = Counts(view.shown.stats[i])]_vars

\* What does hold of C21: the frame, and the remaining players' holes won,
\* hole-in-ones and rounds played; their total wins do not decrease.
C21_RemovalKeepsOwnCounts ==
    [][/\ RosterShrinks => RemovalFrame
       /\ RendersAfterRemoval =>
             \A i \in DOMAIN view.shown.stats, j \in DOMAIN view'.playerStats :
                 view.shown.stats[i].playerId = view'.playerStats[j].playerId
                     => /\ view'.playerStats[j].holesWon
                              = view.shown.stats[i].holesWon
                        /\ view'.playerStats[j].holeInOnes
                              = view.shown.stats[i].holeInOnes
                        /\ view'.playerStats[j].roundsPlayed
                              = view.shown.stats[i].roundsPlayed
                        /\ view'.playerStats[j].totalWins
                              >= view.shown.stats[i].totalWins]_vars

----------------------------------------------------------------------------
(* C22 *)

\* The positions of the round's hole results for hole h.
HolesAt(round, h) ==
    {x \in DOMAIN round.holeResults : round.holeResults[x].holeNumber = h}

\* At most one hole result per hole number.
KeyedByHole(round) ==
    \A h \in 1..MaxHole : Cardinality(HolesAt(round, h)) <= 1

\* A step that changes the hole results of a round.
HoleStep ==
    /\ Len(rounds') = Len(rounds)
    /\ \E i \in DOMAIN rounds : rounds'[i].holeResults # rounds[i].holeResults

\* The step is updateRoundHole(rounds[i].id, h, W, A): hole h of the round
\* becomes (W, A), in place if it was recorded and at the end if not; the
\* other holes of the round, its other fields and the other rounds stay.
SetsHole(i, h, W, A) ==
    LET old == rounds[i].holeResults
        new == rounds'[i].holeResults
    IN /\ rounds' = [rounds EXCEPT ![i] = [@ EXCEPT !.holeResults = new]]
       /\ \A x \in HolesAt(rounds'[i], h) :
             new[x] = [holeNumber |-> h, winnerIds |-> W,
                       holeInOnePlayerIds |-> A]
       /\ Cardinality(HolesAt(rounds'[i], h)) = 1
       /\ \A x \in DOMAIN old : old[x].holeNumber # h => new[x] = old[x]
       /\ HolesAt(rounds[i], h) # {}
             => Len(new) = Len(old) /\ HolesAt(rounds'[i], h) = HolesAt(rounds[i], h)
       /\ HolesAt(rounds[i], h) = {}
             => Len(new) = Len(old) + 1 /\ HolesAt(rounds'[i], h) = {Len(new)}

\* C22: a round is created without hole results; every round holds at most
\* one hole result per hole number; a step that changes hole results sets
\* one hole of one round to the entered winners and hole-in-ones, replacing
\* the hole's entry in place or appending it, and leaves every other hole of
\* the round and every other round unchanged.
C22_KeyedByHole ==
    [][/\ \A i \in DOMAIN rounds' : KeyedByHole(rounds'[i])
       /\ Len(rounds') > Len(rounds)
             => rounds'[Len(rounds')].holeResults = <<>>
       /\ HoleStep =>
             \E i \in DOMAIN rounds, h \in 1..MaxHole, in \in HoleInputs :
                 SetsHole(i, h, in[1], in[2])]_vars

\* Reached: a round whose hole 2 was recorded before its hole 1, both with
\* winners, and a round with hole 2 alone.
C22_Witness ==
    /\ \E i \in DOMAIN rounds :
          /\ Len(rounds[i].holeResults) = 2
          /\ rounds[i].holeResults[1].holeNumber = 2
          /\ rounds[i].holeResults[2].holeNumber = 1
          /\ rounds[i].holeResults[1].winnerIds # <<>>
          /\ rounds[i].holeResults[2].winnerIds # <<>>
    /\ \E i \in DOMAIN rounds :
          /\ Len(rounds[i].holeResults) = 1
          /\ rounds[i].holeResults[1].holeNumber = 2

----------------------------------------------------------------------------
(* Starting seasons: the NewSeason page is submitted with any typed name   *)
(* and any selection of roster players.                                    *)

\* Names typed for a season: nothing, a blank, a padded name, a name.
SeasonNameInputs == {<<>>, <<" ">>, <<" ", "a">>, OtherName}

\* The players ticked on the NewSeason page: the first n of the roster.
PlayerSelections ==
    {[i \in 1..n |-> players[i].id] : n \in 0..Len(players)}

\* NewSeason: the Create button, whatever the form holds
SubmitNewSeason ==
    /\ \E name \in SeasonNameInputs, sel \in PlayerSelections :
          \/ HandleCreateSeason(name, sel)
          \/ HandleCreateSeasonRejected(name, sel)
    /\ StatsUnmounted

NextNewSeason ==
    \/ DoAddPlayer
    \/ DoRemovePlayer
    \/ SubmitNewSeason
    \/ DoCompleteSeason
    \/ DoDeleteSeason

SpecNewSeason == Init /\ [][NextNewSeason]_vars

----------------------------------------------------------------------------
(* C23 *)

\* The form would be turned down.
Unfit(name, sel) == Trim(name) = <<>> \/ Len(sel) < 2

\* C23: a season is created only from a name that is non-empty after
\* trimming and a selection of at least 2 players (it is stored with the
\* trimmed name and that selection); a submission with a blank name or
\* fewer than 2 players cannot create a season, and leaves the store as it
\* is.
C23_StartRequirements ==
    /\ [](\A name \in SeasonNameInputs, sel \in PlayerSelections :
            Unfit(name, sel) => ~ENABLED HandleCreateSeason(name, sel))
    /\ [][/\ \A j \in DOMAIN seasons' :
                seasons'[j].id \notin SeasonIds =>
                    /\ seasons'[j].name # <<>>
                    /\ seasons'[j].name = Trim(seasons'[j].name)
                    /\ Len(seasons'[j].playerIds) >= 2
          /\ Len(players) < 2 => Len(seasons') <= Len(seasons)]_vars

\* Reached: with a roster of two, a season created from the padded name,
\* stored trimmed with both players, and a season of the other name.
C23_Witness ==
    /\ Len(players) = 2
    /\ \E j \in DOMAIN seasons :
          /\ seasons[j].name = PlainName
          /\ Len(seasons[j].playerIds) = 2
    /\ \E j \in DOMAIN seasons : seasons[j].name = OtherName

----------------------------------------------------------------------------
(* C24 *)

\* The roster positions of the participants of the k-th round.
ParticipantsOf(k) ==
    {i \in DOMAIN players : players[i].id \in Range(ViewRounds[k].playerIds)}

\* The largest holes-won sum a participant has within the k-th round.
ParticipantMax(k) ==
    LET sums == {Gain(k, i, "holesWon") : i \in ParticipantsOf(k)} \cup {0}
    IN CHOOSE m \in sums : \A v \in sums : v <= m

\* C24: in a completed round the maximum holes-won sum is taken across the
\* round's participants: every player who gains a round win from a round is
\* a participant of it, and the participants at the participants' maximum
\* (if above 0) gain it, whatever a non-participant has in the winner sets.
C24_WinnersAreParticipants ==
    view.mounted =>
        \A k \in DOMAIN ViewRounds, i \in DOMAIN players :
            /\ Gain(k, i, "totalWins") >= 1 => i \in ParticipantsOf(k)
            /\ Completed(ViewRounds[k]) /\ i \in ParticipantsOf(k)
                  /\ ParticipantMax(k) > 0
                  /\ Gain(k, i, "holesWon") = ParticipantMax(k)
                  => Gain(k, i, "totalWins") = 1

\* What the code awards: the roster players at the maximum over all roster
\* players in the winner sets, participants or not.
C24_WinnersAreTopOfRoster ==
    view.mounted =>
        \A k \in DOMAIN ViewRounds, i \in DOMAIN players :
            Gain(k, i, "totalWins")
                = IF /\ Completed(ViewRounds[k])
                     /\ RoundMax(k) > 0
                     /\ Gain(k, i, "holesWon") = RoundMax(k)
                  THEN 1 ELSE 0

----------------------------------------------------------------------------
(* A second season: the first season is over, with one completed round of  *)
(* both players; rounds of the second, active season are played, and the   *)
(* scorecard of any round can still be corrected.                          *)

InitSeasons ==
    /\ players = [i \in FirstIds |-> [id |-> i, name |-> PlainName]]
    /\ seasons = <<[id |-> 1, name |-> PlainName,
                    playerIds |-> [i \in FirstIds |-> i],
                    status |-> "completed", completedAt |-> 2],
                   [id |-> 2, name |-> OtherName,
                    playerIds |-> [i \in FirstIds |-> i],
                    status |-> "active", completedAt |-> Undefined]>>
    /\ courses = <<[id |-> 1, name |-> PlainName]>>
    /\ rounds = <<[id |-> 1, seasonId |-> 1, courseId |-> 1,
                   playerIds |-> [i \in FirstIds |-> i],
                   holeResults |-> <<[holeNumber |-> 1,
                                      winnerIds |-> <<1>>,
                                      holeInOnePlayerIds |-> <<>>]>>,
                   startedAt |-> 1, completedAt |-> 2]>>
    /\ ids = [player |-> MaxPlayers + 1, season |-> 3, course |-> 2,
              round |-> 2]
    /\ clock = 2
    /\ view = NoView
    /\ exported = NoExport
    /\ Loaded

NextSeasons ==
    \/ StartRound
    \/ SaveHole
    \/ FinishRound
    \/ OpenStatistics

SpecSeasons == InitSeasons /\ [][NextSeasons]_vars

----------------------------------------------------------------------------
(* C25 *)

\* The round belongs to what the selected filter asks for.
Selected(round) ==
    view.selectedSeasonId = AllSeasons
    \/ round.seasonId = view.selectedSeasonId

\* The player's holes won in the round.
ScoreOf(round, id) == ListedIn(round, id, "winnerIds")

\* The player wins the round: it is completed and the player's holes won are
\* the largest of a roster player, above 0.
WinsRound(round, id) ==
    /\ Completed(round)
    /\ ScoreOf(round, id) > 0
    /\ \A p \in DOMAIN players :
          ScoreOf(round, players[p].id) <= ScoreOf(round, id)

\* The number of selected rounds that satisfy the flags.
SelectedSum(flags) ==
    SumSeq([k \in DOMAIN rounds |->
              IF Selected(rounds[k]) THEN flags[k] ELSE 0])

B2N(b) == IF b THEN 1 ELSE 0

\* The player and course statistics are those of the snapshot that holds the
\* selected rounds only.
OfSelectedRounds ==
    /\ \A i \in DOMAIN view.playerStats :
          LET st == view.playerStats[i]
              id == st.playerId
          IN /\ st.holesWon
                  = SelectedSum([k \in DOMAIN rounds |->
                                   ScoreOf(rounds[k], id)])
             /\ st.holeInOnes
                  = SelectedSum([k \in DOMAIN rounds |->
                                   ListedIn(rounds[k], id,
                                            "holeInOnePlayerIds")])
             /\ st.roundsPlayed
                  = SelectedSum([k \in DOMAIN rounds |->
                                   B2N(id \in Range(rounds[k].playerIds))])
             /\ st.totalWins
                  = SelectedSum([k \in DOMAIN rounds |->
                                   B2N(WinsRound(rounds[k], id))])
             /\ Len(st.courseHistory)
                  = SelectedSum([k \in DOMAIN rounds |->
                                   B2N(/\ Completed(rounds[k])
                                       /\ id \in Range(rounds[k].playerIds))])
    /\ \A c \in DOMAIN view.courseStats :
          LET cs == view.courseStats[c]
          IN /\ cs.roundsPlayed
                  = SelectedSum([k \in DOMAIN rounds |->
                                   B2N(/\ Completed(rounds[k])
                                       /\ rounds[k].courseId = cs.course.id)])
             /\ \A e \in DOMAIN cs.rankings :
                   \E k \in DOMAIN rounds :
                       /\ Selected(rounds[k])
                       /\ Completed(rounds[k])
                       /\ rounds[k].courseId = cs.course.id
                       /\ rounds[k].startedAt = cs.rankings[e].date
                       /\ ScoreOf(rounds[k], cs.rankings[e].player.id)
                             = cs.rankings[e].score
                       /\ \A j \in DOMAIN rounds :
                             /\ Selected(rounds[j]) /\ Completed(rounds[j])
                             /\ rounds[j].courseId = cs.course.id
                             => ScoreOf(rounds[j], cs.rankings[e].player.id)
                                   <= cs.rankings[e].score

\* The season statistics are those of all rounds of each season.
OfAllRounds ==
    \A n \in DOMAIN view.seasonStats :
        LET ss == view.seasonStats[n]
        IN /\ ss.roundsPlayed
                = Cardinality({k \in DOMAIN rounds :
                                 /\ rounds[k].seasonId = ss.season.id
                                 /\ Completed(rounds[k])})
           /\ \A e \in DOMAIN ss.leaderboard :
                 /\ ss.leaderboard[e].score
                       = SeasonTotal(ss.season.id, ss.leaderboard[e].player.id,
                                     "winnerIds")
                 /\ ss.leaderboard[e].holeInOnes
                       = SeasonTotal(ss.season.id, ss.leaderboard[e].player.id,
                                     "holeInOnePlayerIds")

\* C25: with a season selected, the player and course statistics are
\* computed from exactly the rounds of that season, and with 'all' from all
\* rounds; the season statistics are computed from all rounds of each season
\* and stay the same when the filter is changed.
C25_SeasonFilter ==
    /\ [](view.mounted => OfSelectedRounds /\ OfAllRounds)
    /\ [][view.mounted /\ view'.mounted
             => view'.seasonStats = view.seasonStats]_vars

\* Rendered with the second season selected: a player has won holes in a
\* round of each season, the list shows the holes of the second season only,
\* and both season leaderboards show the player.
C25_Witness ==
    /\ view.mounted
    /\ view.selectedSeasonId = 2
    /\ \E k \in DOMAIN rounds : rounds[k].seasonId = 2 /\ Completed(rounds[k])
    /\ \E i \in DOMAIN view.playerStats :
          /\ view.playerStats[i].playerId = 1
          /\ view.playerStats[i].holesWon = 2
          /\ view.playerStats[i].totalWins = 1
          /\ SeasonTotal(1, 1, "winnerIds") >= 1
    /\ \A n \in DOMAIN view.seasonStats :
          \E e \in DOMAIN view.seasonStats[n].leaderboard :
              view.seasonStats[n].leaderboard[e].player.id = 1

----------------------------------------------------------------------------
(* C26 *)

\* Every id in a winner set of the round.
WinnerIdsOf(round) ==
    UNION {Range(round.holeResults[h].winnerIds) :
           h \in DOMAIN round.holeResults}

\* The largest holes-won sum of any id in the round, 0 without winners.
TopScore(round) ==
    LET sums == {ScoreOf(round, id) : id \in WinnerIdsOf(round)} \cup {0}
    IN CHOOSE m \in sums : \A v \in sums : v <= m

\* Where the id is first met among the winners: (hole result, position).
FirstMet(round, id) ==
    LET places ==
            UNION {{h * 10 + j :
                      j \in {y \in DOMAIN round.holeResults[h].winnerIds :
                               round.holeResults[h].winnerIds[y] = id}} :
                   h \in DOMAIN round.holeResults}
    IN CHOOSE m \in places : \A v \in places : m <= v

\* The ids at the top score.
TopIds(round) ==
    {id \in WinnerIdsOf(round) : ScoreOf(round, id) = TopScore(round)}

\* C26: for every completed round of the rendered set, a player returned by
\* getRoundWinner gains a round win from that round in the player
\* statistics; getRoundWinner returns at most one player, also when several
\* tie for the maximum: the one at the maximum met first, and nobody when
\* the maximum is 0 or when that id is not in the roster.
C26_WinnerConsistent ==
    view.mounted =>
        \A k \in DOMAIN ViewRounds :
            LET round == ViewRounds[k]
                winner == GetRoundWinner(round)
            IN /\ Completed(round) /\ winner # NotFound
                     => \E i \in DOMAIN players :
                           /\ players[i] = winner
                           /\ Gain(k, i, "totalWins") = 1
               /\ winner # NotFound
                     => /\ winner \in Range(players)
                        /\ winner.id \in TopIds(round)
                        /\ \A id \in TopIds(round) :
                              FirstMet(round, winner.id) <= FirstMet(round, id)
               /\ TopScore(round) = 0 => winner = NotFound
               /\ (\E id \in TopIds(round) \ RosterIds :
                      \A other \in TopIds(round) :
                          FirstMet(round, id) <= FirstMet(round, other))
                     => winner = NotFound

\* Rendered: a completed round that a removed player and a roster player tie,
\* the removed player met first: getRoundWinner returns nobody while the
\* roster player gains the round win; and a completed round whose winner
\* getRoundWinner returns.
C26_Witness ==
    /\ view.mounted
    /\ \E k \in DOMAIN ViewRounds :
          /\ Completed(ViewRounds[k])
          /\ Cardinality(TopIds(ViewRounds[k])) = 2
          /\ GetRoundWinner(ViewRounds[k]) = NotFound
          /\ TotalGain(k, "totalWins") = 1
    /\ \E k \in DOMAIN ViewRounds :
          /\ Completed(ViewRounds[k])
          /\ GetRoundWinner(ViewRounds[k]) # NotFound
          /\ TotalGain(k, "totalWins") = 1

----------------------------------------------------------------------------
(* C27 *)

\* The completed rounds of the rendered set.
CompletedViewRounds == {k \in DOMAIN ViewRounds : Completed(ViewRounds[k])}

\* C27: every roster player's total wins are at most the player's holes won
\* and at most the number of completed rounds of the rendered set: a round
\* gives a player at most one win, only if it is completed and the player
\* won a hole in it.
C27_WinsBounded ==
    view.mounted =>
        /\ \A i \in DOMAIN view.playerStats :
              /\ view.playerStats[i].totalWins <= view.playerStats[i].holesWon
              /\ view.playerStats[i].totalWins
                    <= Cardinality(CompletedViewRounds)
        /\ \A k \in DOMAIN ViewRounds, i \in DOMAIN players :
              /\ Gain(k, i, "totalWins") \in {0, 1}
              /\ Gain(k, i, "totalWins") = 1
                    => /\ Completed(ViewRounds[k])
                       /\ Gain(k, i, "holesWon") >= 1

\* Rendered: a player who won both of two completed rounds, next to a player
\* with holes won and no round win.
C27_Witness ==
    /\ view.mounted
    /\ Cardinality(CompletedViewRounds) = 2
    /\ \E i \in DOMAIN view.playerStats :
          /\ view.playerStats[i].totalWins = 2
          /\ view.playerStats[i].holesWon >= 3
    /\ \E i \in DOMAIN view.playerStats :
          /\ view.playerStats[i].totalWins = 0
          /\ view.playerStats[i].holesWon >= 1

----------------------------------------------------------------------------
(* C28 *)

\* A step keeps every completed round that it keeps completed.
StaysCompleted ==
    \A i \in DOMAIN rounds, j \in DOMAIN rounds' :
        rounds[i].id = rounds'[j].id /\ Completed(rounds[i])
            => Completed(rounds'[j])

\* updateRoundHole on a completed round stores the result and leaves the
\* completion timestamp.
CompletedStillScored ==
    \A i \in DOMAIN rounds :
        Completed(rounds[i]) =>
            \A h \in 1..MaxHole, in \in HoleInputs :
                LET u == UpdatedRound(rounds[i], h, in[1], in[2])
                IN /\ u.completedAt = rounds[i].completedAt
                   /\ \E x \in DOMAIN u.holeResults :
                         u.holeResults[x]
                             = [holeNumber |-> h, winnerIds |-> in[1],
                                holeInOnePlayerIds |-> in[2]]

\* C28: once a round has a completion timestamp, no store operation clears
\* it (the round is in progress never again), while updateRoundHole still
\* changes the hole results of the completed round.
C28_CompletionPermanent ==
    /\ [](CompletedStillScored)
    /\ [][StaysCompleted]_vars

\* Reached: a completed round with a hole result, a round started and a
\* season completed after that round was completed, and a member of the
\* season removed from the roster.
C28_Witness ==
    \E i, j \in DOMAIN rounds, s \in DOMAIN seasons :
        /\ Completed(rounds[i])
        /\ rounds[i].holeResults # <<>>
        /\ rounds[j].startedAt >= rounds[i].completedAt
        /\ seasons[s].status = "completed"
        /\ seasons[s].completedAt > rounds[i].completedAt
        /\ seasons[s].id = rounds[i].seasonId
        /\ Range(seasons[s].playerIds) \ RosterIds # {}

----------------------------------------------------------------------------
(* C29 *)

\* A step after which a season is gone.
SeasonGoes == SeasonIds \ SeasonIds' # {}

\* The step deleted season S with its rounds, and nothing else.
Cascaded(S) ==
    /\ \A j \in DOMAIN seasons' : seasons'[j].id # S
    /\ \A j \in DOMAIN rounds' : rounds'[j].seasonId # S
    /\ seasons' = SelectSeq(seasons, LAMBDA s : s.id # S)
    /\ rounds' = SelectSeq(rounds, LAMBDA r : r.seasonId # S)
    /\ players' = players
    /\ courses' = courses

\* C29: after deleteSeason(S) the store has no season with id S and no
\* round of season S; every other season, every round of another season and
\* all players and courses are as before.
C29_DeleteCascades ==
    [][SeasonGoes => \E S \in SeasonIds : Cascaded(S)]_vars

\* Reached: the first season and its round are gone; the second season, its
\* round with a hole result, the players and the course are there.
C29_Witness ==
    /\ SeasonIds = {2}
    /\ Len(rounds) = 1
    /\ rounds[1].id = 2
    /\ rounds[1].seasonId = 2
    /\ rounds[1].holeResults # <<>>
    /\ Len(players) = 2
    /\ Len(courses) = 1

----------------------------------------------------------------------------
(* Mounting the record store: useGolfData starts with empty collections    *)
(* and isLoading, over whatever an earlier session left in localStorage;   *)
(* the effects of the first render load the items, the effects of the next *)
(* render write the collections back, and then the store is used.          *)

\* What an earlier session left under the keys: nothing, an item that does
\* not parse, or a stored collection.
StoredPlayers ==
    {Null, Corrupt, Stringify([i \in FirstIds |-> [id |-> i, name |-> PlainName]])}

StoredSeasons ==
    {Null, Corrupt,
     Stringify(<<[id |-> 1, name |-> PlainName,
                  playerIds |-> [i \in FirstIds |-> i],
                  status |-> "active", completedAt |-> Undefined]>>)}

StoredCourses == {Null, Corrupt, Stringify(<<>>)}

StoredRounds == {Null, Corrupt, Stringify(<<>>)}

\* The keys in the order loadData parses their items.
LoadOrder == <<"players", "seasons", "courses", "rounds">>

\* JSON.parse of the item under the n-th key is reached and returns: the item
\* is a stored collection, and no item parsed before it throws.
Parses(n) ==
    /\ storage[LoadOrder[n]].kind = "json"
    /\ \A m \in 1..(n - 1) : storage[LoadOrder[m]] # Corrupt

\* if (stored) setX(JSON.parse(stored)): the collection of the next render
LoadedValue(n, initial) ==
    IF Parses(n) THEN storage[LoadOrder[n]].value ELSE initial

\* The effects of the first render: loadData, whose state updates and
\* setIsLoading(false) make the next render, and the four persist effects,
\* run with the collections and the isLoading of the first render.
LoadData ==
    /\ isLoading
    /\ players' = LoadedValue(1, players)
    /\ seasons' = LoadedValue(2, seasons)
    /\ courses' = LoadedValue(3, courses)
    /\ rounds' = LoadedValue(4, rounds)
    /\ isLoading' = FALSE
    /\ storage' = PersistEffects(storage, Keys, Memory, isLoading)
    /\ pending' = Keys
    /\ UNCHANGED <<ids, clock, view, exported>>

\* The persist effects of a render, run with its collections and isLoading
RunPersistEffects ==
    /\ pending # {}
    /\ storage' = PersistEffects(storage, pending, Memory, isLoading)
    /\ pending' = {}
    /\ UNCHANGED <<players, seasons, courses, rounds, ids, clock, view,
                   exported, isLoading>>

\* The pages use the store once its effects have run.
Settled == ~isLoading /\ pending = {}

UsePlayers == Settled /\ (DoRemovePlayer \/ DoUpdatePlayer)

UseSeasons == Settled /\ (DoCompleteSeason \/ DoDeleteSeason)

UseCourses == Settled /\ DoAddCourse

UseRounds == Settled /\ (DoCreateRound \/ DoUpdateRoundHole \/ DoCompleteRound)

InitPersist ==
    /\ players = <<>>
    /\ seasons = <<>>
    /\ courses = <<>>
    /\ rounds = <<>>
    /\ ids = [player |-> MaxPlayers + 1, season |-> 2, course |-> 1,
              round |-> 1]
    /\ clock = 1
    /\ view = NoView
    /\ exported = NoExport
    /\ isLoading = TRUE
    /\ pending = {}
    /\ storage \in [players : StoredPlayers, seasons : StoredSeasons,
                    courses : StoredCourses, rounds : StoredRounds]

NextPersist ==
    \/ LoadData
    \/ RunPersistEffects
    \/ UsePlayers
    \/ UseSeasons
    \/ UseCourses
    \/ UseRounds

\* Effects that are pending are run.
SpecPersist ==
    InitPersist /\ [][NextPersist]_vars /\ WF_vars(RunPersistEffects)

----------------------------------------------------------------------------
(* C30 *)

\* Nothing is written by a step taken while isLoading.
NoWriteWhileLoading == isLoading => storage' = storage

\* The step that ends loading hands every parsed item to the next render and
\* leaves it in storage.
LoadKeepsStored ==
    isLoading /\ ~isLoading' =>
        \A n \in DOMAIN LoadOrder :
            Parses(n) =>
                /\ Memory'[LoadOrder[n]] = storage[LoadOrder[n]].value
                /\ storage'[LoadOrder[n]] = storage[LoadOrder[n]]

\* After loading, a step that changes a collection writes it.
ChangeIsWritten ==
    ~isLoading =>
        \A k \in Keys :
            Memory'[k] # Memory[k] => storage'[k] = Stringify(Memory'[k])

\* With no effect pending after loading, storage holds the collections.
StorageCurrent ==
    Settled => \A k \in Keys : storage[k] = Stringify(Memory[k])

\* C30: nothing is written to local storage while isLoading is true, so the
\* initial empty collections are not persisted over stored data before the
\* load has finished; after loading, every change to players, seasons,
\* courses or rounds is followed by a write of that collection.
C30_PersistAfterLoad ==
    /\ [][NoWriteWhileLoading /\ LoadKeepsStored /\ ChangeIsWritten]_vars
    /\ [](StorageCurrent)
    /\ (pending # {}) ~> Settled

\* Reached: the stored players and season were loaded, then a player was
\* removed, a course added, a round played and the season completed; every
\* collection in storage is the one in memory.
C30_Witness ==
    /\ Settled
    /\ Len(players) = 1
    /\ Len(seasons) = 1 /\ seasons[1].status = "completed"
    /\ Len(courses) = 1
    /\ Len(rounds) = 1 /\ rounds[1].holeResults # <<>>
    /\ storage = [k \in Keys |-> Stringify(Memory[k])]

====
